---- MODULE Spec2Model ----
(***************************************************************************)
(* A state-machine model of shpool-vterm, a headless virtual terminal.     *)
(*                                                                         *)
(* The terminal (lib.rs State) owns two screens (screen.rs Screen): the    *)
(* scrollback screen (scrollback.rs) and the alt screen (altscreen.rs).    *)
(* Lines (line.rs) are sequences of cells (cell.rs); attributes and        *)
(* control codes come from term.rs.  Every operator below is a             *)
(* translation of the function named in its comment.                       *)
(*                                                                         *)
(* Conventions.  A VecDeque/Vec is a TLA+ sequence whose element 1 is the  *)
(* front (index 0 of the source).  A panic (failed assertion, index out of *)
(* range, integer underflow) and a loop that never ends are recorded in    *)
(* the field `status` of the terminal, which then accepts no more input.   *)
(***************************************************************************)
EXTENDS Integers, Sequences, FiniteSets, TLC

(***************************************************************************)
(* Bounds of the model.                                                    *)
(***************************************************************************)
MaxWidth  == 3      \* widths range over 1..MaxWidth
MaxHeight == 2      \* heights range over 1..MaxHeight
MaxLines  == 3      \* set_scrollback_lines arguments range over 0..MaxLines
MaxParam  == 2      \* numeric CSI parameters range over 1..MaxParam
MaxSteps  == 4      \* number of operations applied to one terminal

Widths  == 1..MaxWidth
Heights == 1..MaxHeight

Min(a, b) == IF a < b THEN a ELSE b
Max(a, b) == IF a > b THEN a ELSE b

\* usize::saturating_sub
SatSub(a, b) == IF b > a THEN 0 ELSE a - b

Repeat(x, n) == [i \in 1..n |-> x]
Take(s, n)   == SubSeq(s, 1, Min(n, Len(s)))
Drop(s, n)   == SubSeq(s, n + 1, Len(s))

(***************************************************************************)
(* term.rs: Color, Attrs.  A color is <<kind, a, b, c>>.                   *)
(***************************************************************************)
ColorDefault    == <<"Default", 0, 0, 0>>
ColorIdx(i)     == <<"Idx", i, 0, 0>>
ColorRgb(r,g,b) == <<"Rgb", r, g, b>>

\* Attrs::default()
AttrsDefault ==
  [fgcolor |-> ColorDefault, bgcolor |-> ColorDefault,
   font_weight |-> "None", italic |-> FALSE, underline |-> "None",
   inverse |-> FALSE, blink |-> "None", conceal |-> FALSE,
   strikethrough |-> FALSE, framed |-> "None", overline |-> FALSE]

(***************************************************************************)
(* cell.rs: Cell.  The characters of the model: "a" (width 1), "W" (a wide *)
(* character, width 2), " " (the space a dump writes for an empty cell)    *)
(* and "z" (a zero-width combining character).                             *)
(***************************************************************************)
\* UnicodeWidthChar::width
CharWidth(c) == CASE c = "W" -> 2
                  [] c = "z" -> 0
                  [] OTHER   -> 1

\* Cell::new: panics on a zero-width character
CellNewPanics(c) == CharWidth(c) = 0

Cell_new(c, attrs) ==
  [gc |-> c, width |-> CharWidth(c), empty |-> FALSE,
   wide_padding |-> FALSE, attrs |-> attrs]

Cell_empty ==
  [gc |-> "", width |-> 0, empty |-> TRUE,
   wide_padding |-> FALSE, attrs |-> AttrsDefault]

Cell_empty_with_attrs(attrs) ==
  [gc |-> "", width |-> 0, empty |-> TRUE,
   wide_padding |-> FALSE, attrs |-> attrs]

Cell_wide_pad ==
  [gc |-> "", width |-> 0, empty |-> TRUE,
   wide_padding |-> TRUE, attrs |-> AttrsDefault]

(***************************************************************************)
(* line.rs: Line.                                                          *)
(***************************************************************************)
Line_new == [cells |-> <<>>, is_wrapped |-> FALSE]

\* Line::set_cell: Err when col >= width, else pad with empty cells and write
Line_set_cell(line, width, col, cell) ==
  IF col >= width THEN [ok |-> FALSE, line |-> line]
  ELSE IF col >= Len(line.cells)
    THEN [ok |-> TRUE,
          line |-> [line EXCEPT !.cells =
                      line.cells \o Repeat(Cell_empty, col - Len(line.cells))
                                 \o <<cell>>]]
    ELSE [ok |-> TRUE, line |-> [line EXCEPT !.cells[col + 1] = cell]]

\* Line::get_cell: <<>> is None, <<c>> is Some(c)
Line_get_cell(line, width, col) ==
  IF col >= width THEN <<>>
  ELSE IF col >= Len(line.cells) THEN <<Cell_empty>>
  ELSE <<line.cells[col + 1]>>

\* Line::truncate
Line_truncate(line, width) == [line EXCEPT !.cells = Take(line.cells, width)]

\* Line::erase; a section is <<"StartTo", col>>, <<"ToEnd", col>>, <<"Whole", 0>>
Line_erase(line, section) ==
  CASE section[1] = "StartTo" ->
         [line EXCEPT !.cells =
            [i \in 1..Len(line.cells) |->
               IF i <= Min(section[2] + 1, Len(line.cells))
                 THEN Cell_empty ELSE line.cells[i]]]
    [] section[1] = "ToEnd" ->
         [cells |-> Take(line.cells, section[2]), is_wrapped |-> FALSE]
    [] OTHER ->
         [cells |-> <<>>, is_wrapped |-> FALSE]

\* Line::insert_character: Vec::splice(col..col) panics when col > len
Line_insert_character_panics(line, col) == col > Len(line.cells)

Line_insert_character(line, width, col, n) ==
  [line EXCEPT !.cells =
     Take(Take(line.cells, col) \o Repeat(Cell_empty, n) \o Drop(line.cells, col),
          width)]

\* Line::delete_character: `delete_to - col` underflows when col > len, and
\* `width - num_to_delete` when more cells are deleted than the width
Line_delete_character_panics(line, width, col, n) ==
  \/ col > Len(line.cells)
  \/ Min(Len(line.cells), col + n) - col > width

Line_delete_character(line, width, col, attrs, n) ==
  LET delete_to     == Min(Len(line.cells), col + n)
      num_to_delete == delete_to - col
      drained       == Take(line.cells, col) \o Drop(line.cells, delete_to)
      filled        == IF Len(drained) < width - num_to_delete
                         THEN drained \o Repeat(Cell_empty,
                                  (width - num_to_delete) - Len(drained))
                         ELSE drained
      backfilled    == IF Len(filled) < width
                         THEN filled \o Repeat(Cell_empty_with_attrs(attrs),
                                  width - Len(filled))
                         ELSE filled
  IN [line EXCEPT !.cells = backfilled]

(***************************************************************************)
(* term.rs: Pos, Region, ScrollRegion, OriginMode.  A region is given by   *)
(* its row bounds and its column bounds, each <<low, high>> for [low,high).*)
(***************************************************************************)
Pos(r, c) == [row |-> r, col |-> c]
Size(w, h) == [width |-> w, height |-> h]

TrackSize == [kind |-> "TrackSize", top |-> 0, bottom |-> 0]
Window(t, b) == [kind |-> "Window", top |-> t, bottom |-> b]

\* impl Region for Size
Size_row_bounds(size) == <<0, size.height>>
Size_col_bounds(size) == <<0, size.width>>

\* impl Region for (&ScrollRegion, &Size)
ScrollRegion_row_bounds(region, size) ==
  IF region.kind = "TrackSize" THEN <<0, size.height>>
  ELSE <<region.top, region.bottom>>

\* Pos::clamp_to: `high - 1` underflows when a bound is empty at 0
Pos_clamp_to_panics(pos, rb, cb) ==
  \/ Max(pos.row, rb[1]) >= rb[2] /\ rb[2] = 0
  \/ Max(pos.col, cb[1]) >= cb[2] /\ cb[2] = 0

Pos_clamp_to(pos, rb, cb) ==
  LET r1 == IF pos.row < rb[1] THEN rb[1] ELSE pos.row
      r2 == IF r1 >= rb[2] THEN rb[2] - 1 ELSE r1
      c1 == IF pos.col < cb[1] THEN cb[1] ELSE pos.col
      c2 == IF c1 >= cb[2] THEN cb[2] - 1 ELSE c1
  IN Pos(r2, c2)

\* a clamp that leaves the position where it is
ClampToSize_none(pos, size) == pos

\* clamp_to(size), as Screen::clamp and Screen::resize call it
ClampToSize(pos, size) ==
  Pos_clamp_to(pos, Size_row_bounds(size), Size_col_bounds(size))

(***************************************************************************)
(* scrollback.rs: Scrollback.  buf[1] is the bottom line (the front of the *)
(* deque), buf[Len(buf)] the oldest line.  The size and the cursor are     *)
(* those of the owning Screen (screen.rs passes them in).  The fields      *)
(* scroll_region and origin_mode are the ones spec section 4.4 gives the   *)
(* scrollback; no code of scrollback.rs reads them.                        *)
(***************************************************************************)
Scrollback_new(scrollback_lines) ==
  [kind |-> "Scrollback", buf |-> <<>>, lines |-> scrollback_lines,
   scroll_region |-> TrackSize, origin_mode |-> "Term", scroll_offset |-> 0]

\* a set_scrollback_lines that pops from the front: the newest lines go
Scrollback_set_scrollback_lines_pop_front(sb, scrollback_lines) ==
  [sb EXCEPT !.buf = Drop(sb.buf, SatSub(Len(sb.buf), scrollback_lines)),
             !.lines = scrollback_lines]

\* Scrollback::set_scrollback_lines
Scrollback_set_scrollback_lines(sb, scrollback_lines) ==
  [sb EXCEPT !.buf = Take(sb.buf, scrollback_lines),
             !.lines = scrollback_lines]

\* Scrollback::add_line: push_front, then pop_back while over capacity
Scrollback_add_line(sb, line) ==
  [sb EXCEPT !.buf = Take(<<line>> \o sb.buf, sb.lines)]

\* Scrollback::get_line_mut: the index into buf of the line of `row`, 0 for None
Scrollback_get_line_idx(sb, size, row) ==
  LET in_view_scrollback_len == Min(Len(sb.buf), size.height)
  IN IF row >= in_view_scrollback_len THEN 0
     ELSE ((in_view_scrollback_len - 1) - row) + 1

\* Scrollback::set: Ok(()) without storing when the row has no line
Scrollback_set(sb, size, pos, cell) ==
  LET idx == Scrollback_get_line_idx(sb, size, pos.row)
  IN IF idx = 0 THEN [ok |-> TRUE, sb |-> sb]
     ELSE LET r == Line_set_cell(sb.buf[idx], size.width, pos.col, cell)
          IN [ok |-> r.ok, sb |-> [sb EXCEPT !.buf[idx] = r.line]]

\* The loop `while self.buf.len() < row + 1 { self.add_line(Line::new()) }`:
\* add_line never lets buf grow beyond `lines`, so the loop never ends when
\* the capacity is below row + 1.
Scrollback_fill_hangs(sb, row) == Len(sb.buf) < row + 1 /\ sb.lines < row + 1

Scrollback_fill(sb, row) ==
  IF Len(sb.buf) < row + 1
    THEN [sb EXCEPT !.buf = Repeat(Line_new, (row + 1) - Len(sb.buf)) \o sb.buf]
    ELSE sb

\* a wrap test that fires as soon as the cell reaches the right edge
Scrollback_wraps_eager(size, cursor, cell) ==
  cursor.col + cell.width >= size.width

\* Scrollback::write_at_cursor, the wrap test made before the cell is placed
Scrollback_wraps(size, cursor, cell) ==
  cursor.col + cell.width >= size.width + 1

\* Scrollback::write_at_cursor.  The result is [status, grid, cursor] with
\* status "ok", "err" (an Err return), "panic" or "hang".
Scrollback_write_at_cursor(sb, size, cursor, cell) ==
  IF size.width < 1 THEN [status |-> "err", grid |-> sb, cursor |-> cursor]
  ELSE IF Scrollback_fill_hangs(sb, cursor.row)
    THEN [status |-> "hang", grid |-> sb, cursor |-> cursor]
  ELSE
    LET sb1   == Scrollback_fill(sb, cursor.row)
        wraps == Scrollback_wraps(size, cursor, cell)
        idx   == Scrollback_get_line_idx(sb1, size, cursor.row)
    IN IF wraps /\ idx = 0
         THEN [status |-> "err", grid |-> sb1, cursor |-> cursor]
       ELSE
         LET sb2 == IF wraps THEN [sb1 EXCEPT !.buf[idx].is_wrapped = TRUE]
                    ELSE sb1
             c2  == IF wraps THEN Pos(cursor.row + 1, 0) ELSE cursor
             sb3 == IF wraps /\ Len(sb2.buf) < c2.row + 1
                      THEN Scrollback_add_line(sb2, Line_new) ELSE sb2
             m   == Scrollback_set(sb3, size, c2, cell)
             c3  == Pos(c2.row, c2.col + 1)
         IN IF ~m.ok THEN [status |-> "err", grid |-> sb3, cursor |-> cursor]
            ELSE IF cell.width > 1
              THEN IF ~(c3.col < size.width)
                     THEN [status |-> "panic", grid |-> m.sb, cursor |-> cursor]
                     ELSE LET p == Scrollback_set(m.sb, size, c3, Cell_wide_pad)
                          IN [status |-> "ok", grid |-> p.sb,
                              cursor |-> Pos(c3.row, c3.col + 1)]
              ELSE [status |-> "ok", grid |-> m.sb, cursor |-> c3]

\* Scrollback::reflow, the chunks of `chunk.cells[remainder..]`
RECURSIVE Reflow_remaining(_, _, _, _)
Reflow_remaining(out, rest, more, new_width) ==
  IF Len(rest) = 0 THEN [out |-> out, line |-> Line_new]
  ELSE IF Len(rest) > new_width
    THEN Reflow_remaining(
           <<[cells |-> Take(rest, new_width), is_wrapped |-> TRUE]>> \o out,
           Drop(rest, new_width), more, new_width)
  ELSE LET l == [cells |-> rest, is_wrapped |-> more]
       IN IF Len(rest) = new_width
            THEN [out |-> <<l>> \o out, line |-> Line_new]
            ELSE [out |-> out, line |-> l]

\* a reflow that never splits a chunk at the new width
Reflow_chunk_no_split(line, out, chunk, more, new_width) ==
  LET l2 == [line EXCEPT !.cells = line.cells \o chunk.cells]
  IN IF Len(l2.cells) >= new_width
       THEN [out |-> <<l2>> \o out, line |-> Line_new]
       ELSE [out |-> out, line |-> l2]

\* Scrollback::reflow, one chunk of a logical line added to the partial line
Reflow_chunk(line, out, chunk, more, new_width) ==
  LET remainder == new_width - Len(line.cells)
  IN IF Len(chunk.cells) < remainder
       THEN LET l2 == [line EXCEPT !.cells = line.cells \o chunk.cells]
            IN IF Len(l2.cells) = new_width
                 THEN [out |-> <<l2>> \o out, line |-> Line_new]
                 ELSE [out |-> out, line |-> l2]
       ELSE LET done == [cells |-> line.cells \o Take(chunk.cells, remainder),
                         is_wrapped |-> Len(chunk.cells) > remainder \/ more]
            IN Reflow_remaining(<<done>> \o out, Drop(chunk.cells, remainder),
                                more, new_width)

\* Scrollback::reflow, a complete logical line chopped up by the new width
RECURSIVE Reflow_logical(_, _, _, _)
Reflow_logical(line, out, logical_line, new_width) ==
  IF logical_line = <<>>
    THEN IF Len(line.cells) # 0 THEN <<line>> \o out ELSE out
    ELSE LET r == Reflow_chunk(line, out, Head(logical_line),
                               Len(logical_line) > 1, new_width)
         IN Reflow_logical(r.line, r.out, Tail(logical_line), new_width)

\* Scrollback::reflow, the outer loop popping grid lines from the back
RECURSIVE Reflow_lines(_, _, _, _)
Reflow_lines(buf, new_scrollback, logical_line, new_width) ==
  IF buf = <<>> THEN new_scrollback
  ELSE LET grid_line == buf[Len(buf)]
           rest      == SubSeq(buf, 1, Len(buf) - 1)
           logical   == Append(logical_line, grid_line)
       IN IF grid_line.is_wrapped
            THEN Reflow_lines(rest, new_scrollback, logical, new_width)
            ELSE Reflow_lines(rest,
                   Reflow_logical(Line_new, new_scrollback, logical, new_width),
                   <<>>, new_width)

Scrollback_reflow(sb, new_width) ==
  [sb EXCEPT !.buf = Reflow_lines(sb.buf, <<>>, <<>>, new_width)]

(***************************************************************************)
(* altscreen.rs: AltScreen.  buf[1] is the top line.  Source index i is    *)
(* element i + 1 of the sequence.                                          *)
(***************************************************************************)
AltScreen_new(size) ==
  [kind |-> "AltScreen", buf |-> Repeat(Line_new, size.height), lines |-> 0,
   scroll_region |-> TrackSize, origin_mode |-> "Term", scroll_offset |-> 0]

\* a scroll that drops the top line and adds none at the bottom
AltScreen_scroll_no_push(buf) == Tail(buf)

\* AltScreen::write_at_cursor, the scroll at the very end: pop_front, then
\* push_back(Line::new())
AltScreen_scroll(buf) == Append(Tail(buf), Line_new)

\* AltScreen::write_at_cursor; the result is as for Scrollback_write_at_cursor
AltScreen_write_at_cursor(alt, size, cursor, cell) ==
  IF size.width < 1 THEN [status |-> "err", grid |-> alt, cursor |-> cursor]
  ELSE IF cursor.row >= Len(alt.buf)
    THEN [status |-> "panic", grid |-> alt, cursor |-> cursor]
  ELSE
    LET r == Line_set_cell(alt.buf[cursor.row + 1], size.width, cursor.col, cell)
        col1     == cursor.col + cell.width
        wraps    == col1 >= size.width
        c1       == IF wraps THEN Pos(cursor.row + 1, 0) ELSE Pos(cursor.row, col1)
        written  == [alt.buf EXCEPT ![cursor.row + 1] = r.line]
        scrolled == IF wraps /\ c1.row >= size.height
                      THEN AltScreen_scroll(written) ELSE written
    IN IF ~r.ok THEN [status |-> "err", grid |-> alt, cursor |-> cursor]
       ELSE [status |-> "ok", grid |-> [alt EXCEPT !.buf = scrolled],
             cursor |-> ClampToSize(c1, size)]

\* AltScreen::clamp_to_scroll_region
AltScreen_clamp_to_scroll_region(alt, cursor, size) ==
  IF alt.origin_mode = "Term" THEN ClampToSize(cursor, size)
  ELSE Pos_clamp_to(cursor, ScrollRegion_row_bounds(alt.scroll_region, size),
                    Size_col_bounds(size))

\* AltScreen::resize
AltScreen_resize(alt, new_size) ==
  LET truncated  == [i \in 1..Len(alt.buf) |->
                       Line_truncate(alt.buf[i], new_size.width)]
      old_height == Len(alt.buf)
  IN [alt EXCEPT !.buf =
        IF new_size.height > old_height
          THEN truncated \o Repeat(Line_new, new_size.height - old_height)
          ELSE Take(truncated, new_size.height)]

\* AltScreen::get_line_mut: `assert!(row <= len)`, then `&mut self.buf[row]`
AltScreen_get_line_mut_panics(alt, row) ==
  ~(row <= Len(alt.buf)) \/ row >= Len(alt.buf)

\* the row range that an erase covers
AltScreen_erase_start(alt) ==
  IF alt.origin_mode = "ScrollRegion" /\ alt.scroll_region.kind = "Window"
    THEN alt.scroll_region.top ELSE 0

AltScreen_erase_end(alt) ==
  IF alt.origin_mode = "ScrollRegion" /\ alt.scroll_region.kind = "Window"
    THEN alt.scroll_region.bottom ELSE Len(alt.buf)

\* AltScreen::erase_to_end
AltScreen_erase_to_end_panics(alt, cursor) ==
  \/ cursor.row >= Len(alt.buf)
  \/ \E i \in (cursor.row + 1)..(AltScreen_erase_end(alt) - 1) : i >= Len(alt.buf)

AltScreen_erase_to_end(alt, cursor) ==
  [alt EXCEPT !.buf = [k \in 1..Len(alt.buf) |->
     IF k - 1 = cursor.row THEN Line_truncate(alt.buf[k], cursor.col)
     ELSE IF k - 1 > cursor.row /\ k - 1 < AltScreen_erase_end(alt)
       THEN Line_truncate(alt.buf[k], 0)
     ELSE alt.buf[k]]]

\* AltScreen::erase_from_start
AltScreen_erase_from_start_panics(alt, cursor) == cursor.row >= Len(alt.buf)

AltScreen_erase_from_start(alt, cursor) ==
  [alt EXCEPT !.buf = [k \in 1..Len(alt.buf) |->
     IF k - 1 = cursor.row
       THEN Line_erase(alt.buf[k], <<"StartTo", cursor.col>>)
     ELSE IF k - 1 >= AltScreen_erase_start(alt) /\ k - 1 < cursor.row
       THEN Line_truncate(alt.buf[k], 0)
     ELSE alt.buf[k]]]

\* AltScreen::erase
AltScreen_erase_panics(alt) ==
  \E i \in AltScreen_erase_start(alt)..(AltScreen_erase_end(alt) - 1) :
     i >= Len(alt.buf)

AltScreen_erase(alt) ==
  [alt EXCEPT !.buf = [k \in 1..Len(alt.buf) |->
     IF k - 1 >= AltScreen_erase_start(alt) /\ k - 1 < AltScreen_erase_end(alt)
       THEN Line_truncate(alt.buf[k], 0) ELSE alt.buf[k]]]

\* insert_lines and delete_lines: the (top, bottom) they work in, and whether
\* the cursor is outside the scroll region (the early return)
AltScreen_shift_top(alt) ==
  IF alt.scroll_region.kind = "TrackSize" THEN 0 ELSE alt.scroll_region.top

AltScreen_shift_bottom(alt) ==
  IF alt.scroll_region.kind = "TrackSize" THEN Len(alt.buf)
  ELSE alt.scroll_region.bottom

AltScreen_shift_outside(alt, cursor) ==
  /\ alt.scroll_region.kind = "Window"
  /\ (cursor.row < alt.scroll_region.top \/ alt.scroll_region.bottom <= cursor.row)

\* AltScreen::insert_lines: `bottom - cursor.row` underflows below the buffer,
\* and any index at or beyond buf.len() panics
AltScreen_insert_lines_panics(alt, cursor, n) ==
  LET top    == AltScreen_shift_top(alt)
      bottom == AltScreen_shift_bottom(alt)
      lines_to_insert == Min(n, bottom - cursor.row)
      shuffle_lines   == ((bottom - top) - lines_to_insert) - (cursor.row - top)
  IN /\ ~AltScreen_shift_outside(alt, cursor)
     /\ \/ cursor.row > bottom
        \/ \E i \in 0..(shuffle_lines - 1) : bottom - 1 - i >= Len(alt.buf)
        \/ \E i \in shuffle_lines..(lines_to_insert - 1) :
              cursor.row + i >= Len(alt.buf)

AltScreen_insert_lines(alt, cursor, n) ==
  LET bottom == AltScreen_shift_bottom(alt)
      lines_to_insert == Min(n, bottom - cursor.row)
  IN IF AltScreen_shift_outside(alt, cursor) THEN alt
     ELSE [alt EXCEPT !.buf = [k \in 1..Len(alt.buf) |->
            IF k - 1 >= cursor.row /\ k - 1 < bottom
              THEN IF k - 1 < cursor.row + lines_to_insert THEN Line_new
                   ELSE alt.buf[k - lines_to_insert]
              ELSE alt.buf[k]]]

\* AltScreen::delete_lines
AltScreen_delete_lines_panics(alt, cursor, n) ==
  LET top    == AltScreen_shift_top(alt)
      bottom == AltScreen_shift_bottom(alt)
      lines_to_delete == Min(n, bottom - cursor.row)
      shuffle_lines   == ((bottom - top) - lines_to_delete) - (cursor.row - top)
  IN /\ ~AltScreen_shift_outside(alt, cursor)
     /\ \/ cursor.row > bottom
        \/ \E i \in 0..(shuffle_lines - 1) :
              cursor.row + lines_to_delete + i >= Len(alt.buf)
        \/ \E i \in shuffle_lines..(lines_to_delete - 1) :
              cursor.row + i >= Len(alt.buf)

AltScreen_delete_lines(alt, cursor, n) ==
  LET bottom == AltScreen_shift_bottom(alt)
      lines_to_delete == Min(n, bottom - cursor.row)
  IN IF AltScreen_shift_outside(alt, cursor) THEN alt
     ELSE [alt EXCEPT !.buf = [k \in 1..Len(alt.buf) |->
            IF k - 1 >= cursor.row /\ k - 1 < bottom
              THEN IF k - 1 + lines_to_delete < bottom
                     THEN alt.buf[k + lines_to_delete]
                     ELSE Line_new
              ELSE alt.buf[k]]]

(***************************************************************************)
(* Operations of the scrollback that screen.rs and the dispatcher call but *)
(* scrollback.rs does not hold: erase (spec 4.4, "Erase operations") and   *)
(* insert/delete lines (spec 4.4, "IL/DL").  A row r of the window is the  *)
(* element Scrollback_get_line_idx(sb, size, r) of buf; rows without       *)
(* storage are left alone.                                                 *)
(***************************************************************************)
\* the row of the window that element k of buf shows, -1 above the window
Scrollback_row_of(sb, size, k) ==
  LET in_view == Min(Len(sb.buf), size.height)
  IN IF k <= in_view THEN in_view - k ELSE 0 - 1

Scrollback_erase_start(sb) ==
  IF sb.origin_mode = "ScrollRegion" /\ sb.scroll_region.kind = "Window"
    THEN sb.scroll_region.top ELSE 0

Scrollback_erase_end(sb, size) ==
  IF sb.origin_mode = "ScrollRegion" /\ sb.scroll_region.kind = "Window"
    THEN sb.scroll_region.bottom ELSE size.height

Scrollback_erase_to_end(sb, size, cursor) ==
  [sb EXCEPT !.buf = [k \in 1..Len(sb.buf) |->
     LET row == Scrollback_row_of(sb, size, k)
     IN IF row = cursor.row THEN Line_erase(sb.buf[k], <<"ToEnd", cursor.col>>)
        ELSE IF row > cursor.row /\ row < Scrollback_erase_end(sb, size)
          THEN Line_erase(sb.buf[k], <<"Whole", 0>>)
        ELSE sb.buf[k]]]

Scrollback_erase_from_start(sb, size, cursor) ==
  [sb EXCEPT !.buf = [k \in 1..Len(sb.buf) |->
     LET row == Scrollback_row_of(sb, size, k)
     IN IF row = cursor.row THEN Line_erase(sb.buf[k], <<"StartTo", cursor.col>>)
        ELSE IF row >= Scrollback_erase_start(sb) /\ row < cursor.row
          THEN Line_erase(sb.buf[k], <<"Whole", 0>>)
        ELSE sb.buf[k]]]

Scrollback_erase(sb, size, include_scrollback) ==
  LET in_view == Min(Len(sb.buf), size.height)
      erased  == [k \in 1..Len(sb.buf) |->
         LET row == Scrollback_row_of(sb, size, k)
         IN IF row >= Scrollback_erase_start(sb)
               /\ row < Scrollback_erase_end(sb, size)
              THEN Line_erase(sb.buf[k], <<"Whole", 0>>) ELSE sb.buf[k]]
  IN [sb EXCEPT !.buf = IF include_scrollback THEN Take(erased, in_view)
                        ELSE erased]

\* the (top, bottom) that IL/DL work in on the scrollback
Scrollback_shift_top(sb) ==
  IF sb.scroll_region.kind = "TrackSize" THEN 0 ELSE sb.scroll_region.top

Scrollback_shift_bottom(sb, size) ==
  IF sb.scroll_region.kind = "TrackSize" THEN size.height
  ELSE Min(sb.scroll_region.bottom, size.height)

Scrollback_shift_inside(sb, size, cursor) ==
  /\ Scrollback_shift_top(sb) <= cursor.row
  /\ cursor.row < Scrollback_shift_bottom(sb, size)
  /\ Scrollback_shift_bottom(sb, size) <= Len(sb.buf)

\* IL: the lines of rows [cursor.row, bottom) move down by n, the lowest n of
\* them are dropped and rows [cursor.row, cursor.row + n) become empty
Scrollback_insert_lines(sb, size, cursor, n) ==
  LET bottom  == Scrollback_shift_bottom(sb, size)
      in_view == Min(Len(sb.buf), size.height)
      k_of(r) == in_view - r
      m       == Min(n, bottom - cursor.row)
  IN IF ~Scrollback_shift_inside(sb, size, cursor) THEN sb
     ELSE [sb EXCEPT !.buf = [k \in 1..Len(sb.buf) |->
            LET row == Scrollback_row_of(sb, size, k)
            IN IF row >= cursor.row /\ row < bottom
                 THEN IF row < cursor.row + m THEN Line_new
                      ELSE sb.buf[k_of(row - m)]
                 ELSE sb.buf[k]]]

\* DL: the lines of rows [cursor.row + n, bottom) move up by n and the rows
\* below them become empty
Scrollback_delete_lines(sb, size, cursor, n) ==
  LET bottom  == Scrollback_shift_bottom(sb, size)
      in_view == Min(Len(sb.buf), size.height)
      k_of(r) == in_view - r
      m       == Min(n, bottom - cursor.row)
  IN IF ~Scrollback_shift_inside(sb, size, cursor) THEN sb
     ELSE [sb EXCEPT !.buf = [k \in 1..Len(sb.buf) |->
            LET row == Scrollback_row_of(sb, size, k)
            IN IF row >= cursor.row /\ row < bottom
                 THEN IF row + m < bottom THEN sb.buf[k_of(row + m)]
                      ELSE Line_new
                 ELSE sb.buf[k]]]

(***************************************************************************)
(* screen.rs: Screen, the facade over the two grids.  Operations that can  *)
(* fail return [status, screen].                                           *)
(***************************************************************************)
SavedCursor_new(pos) == [pos |-> pos, attrs |-> AttrsDefault]

\* Screen::scrollback
Screen_scrollback(scrollback_lines, size) ==
  [grid |-> Scrollback_new(IF scrollback_lines < size.height
                             THEN size.height ELSE scrollback_lines),
   size |-> size, cursor |-> Pos(0, 0),
   saved_cursor |-> SavedCursor_new(Pos(0, 0))]

\* Screen::alt
Screen_alt(size) ==
  [grid |-> AltScreen_new(size), size |-> size, cursor |-> Pos(0, 0),
   saved_cursor |-> SavedCursor_new(Pos(0, 0))]

\* Screen::set_scrollback_lines
Screen_set_scrollback_lines(screen, scrollback_lines) ==
  IF screen.grid.kind = "Scrollback"
    THEN [screen EXCEPT !.grid =
            Scrollback_set_scrollback_lines(screen.grid, scrollback_lines)]
    ELSE screen

\* a resize that clamps the cursor and forgets the saved cursor
Screen_resize_cursor_only(screen, new_size) ==
  [grid |-> IF screen.grid.kind = "Scrollback"
              THEN Scrollback_reflow(screen.grid, new_size.width)
              ELSE AltScreen_resize(screen.grid, new_size),
   size |-> new_size,
   cursor |-> ClampToSize(screen.cursor, new_size),
   saved_cursor |-> screen.saved_cursor]

\* Screen::resize
Screen_resize(screen, new_size) ==
  [grid |-> IF screen.grid.kind = "Scrollback"
              THEN Scrollback_reflow(screen.grid, new_size.width)
              ELSE AltScreen_resize(screen.grid, new_size),
   size |-> new_size,
   cursor |-> ClampToSize(screen.cursor, new_size),
   saved_cursor |-> [screen.saved_cursor EXCEPT
                       !.pos = ClampToSize(screen.saved_cursor.pos, new_size)]]

\* Screen::clamp
Screen_clamp(screen) ==
  [screen EXCEPT !.cursor = ClampToSize(screen.cursor, screen.size)]

\* Scroll offset (spec 4.4): scroll_up(n) raises scroll_offset, clamped to
\* max_lines; scroll_down(n) lowers it, saturating at 0; a print snaps it
\* back to 0.
Scrollback_scroll_up(sb, n) ==
  [sb EXCEPT !.scroll_offset = Min(sb.scroll_offset + n, sb.lines)]
Scrollback_scroll_down(sb, n) ==
  [sb EXCEPT !.scroll_offset = SatSub(sb.scroll_offset, n)]
Scrollback_snap_to_bottom(sb) == [sb EXCEPT !.scroll_offset = 0]

\* Screen::write_at_cursor: the cursor moves only when the grid returns Ok;
\* a print on the scrollback snaps the scroll offset first (spec 4.7)
Screen_write_at_cursor(screen, cell) ==
  LET r == IF screen.grid.kind = "Scrollback"
             THEN Scrollback_write_at_cursor(screen.grid, screen.size,
                                             screen.cursor, cell)
             ELSE AltScreen_write_at_cursor(screen.grid, screen.size,
                                            screen.cursor, cell)
      g == IF screen.grid.kind = "Scrollback"
             THEN Scrollback_snap_to_bottom(r.grid) ELSE r.grid
  IN [status |-> r.status,
      screen |-> [screen EXCEPT !.grid = g, !.cursor = r.cursor]]

Screen_ok(screen) == [status |-> "ok", screen |-> screen]
Screen_panic(screen) == [status |-> "panic", screen |-> screen]

\* Screen::erase_to_end
Screen_erase_to_end(screen) ==
  IF screen.grid.kind = "Scrollback"
    THEN Screen_ok([screen EXCEPT !.grid =
           Scrollback_erase_to_end(screen.grid, screen.size, screen.cursor)])
  ELSE IF AltScreen_erase_to_end_panics(screen.grid, screen.cursor)
    THEN Screen_panic(screen)
  ELSE Screen_ok([screen EXCEPT !.grid =
           AltScreen_erase_to_end(screen.grid, screen.cursor)])

\* Screen::erase_from_start
Screen_erase_from_start(screen) ==
  IF screen.grid.kind = "Scrollback"
    THEN Screen_ok([screen EXCEPT !.grid =
           Scrollback_erase_from_start(screen.grid, screen.size, screen.cursor)])
  ELSE IF AltScreen_erase_from_start_panics(screen.grid, screen.cursor)
    THEN Screen_panic(screen)
  ELSE Screen_ok([screen EXCEPT !.grid =
           AltScreen_erase_from_start(screen.grid, screen.cursor)])

\* an erase that never includes the lines above the window
Screen_erase_window_only(screen, include_scrollback) ==
  IF screen.grid.kind = "Scrollback"
    THEN Screen_ok([screen EXCEPT !.grid =
           Scrollback_erase(screen.grid, screen.size, FALSE)])
  ELSE IF AltScreen_erase_panics(screen.grid) THEN Screen_panic(screen)
  ELSE Screen_ok([screen EXCEPT !.grid = AltScreen_erase(screen.grid)])

\* Screen::erase
Screen_erase(screen, include_scrollback) ==
  IF screen.grid.kind = "Scrollback"
    THEN Screen_ok([screen EXCEPT !.grid =
           Scrollback_erase(screen.grid, screen.size, include_scrollback)])
  ELSE IF AltScreen_erase_panics(screen.grid) THEN Screen_panic(screen)
  ELSE Screen_ok([screen EXCEPT !.grid = AltScreen_erase(screen.grid)])

\* Screen::erase_to_end_of_line, erase_to_start_of_line, erase_line: the
\* section is erased from the line of the cursor's row
Screen_erase_in_line(screen, section) ==
  IF screen.grid.kind = "Scrollback"
    THEN LET idx == Scrollback_get_line_idx(screen.grid, screen.size,
                                            screen.cursor.row)
         IN IF idx = 0 THEN Screen_ok(screen)
            ELSE Screen_ok([screen EXCEPT !.grid.buf[idx] =
                              Line_erase(screen.grid.buf[idx], section)])
  ELSE IF AltScreen_get_line_mut_panics(screen.grid, screen.cursor.row)
    THEN Screen_panic(screen)
  ELSE Screen_ok([screen EXCEPT !.grid.buf[screen.cursor.row + 1] =
         Line_erase(screen.grid.buf[screen.cursor.row + 1], section)])

Screen_erase_to_end_of_line(screen) ==
  Screen_erase_in_line(screen, <<"ToEnd", screen.cursor.col>>)

Screen_erase_to_start_of_line(screen) ==
  Screen_erase_in_line(screen, <<"StartTo", screen.cursor.col>>)

Screen_erase_line(screen) == Screen_erase_in_line(screen, <<"Whole", 0>>)

(***************************************************************************)
(* Screen operations behind the dispatcher arms that lib.rs does not hold  *)
(* (spec 4.6 and 4.8): insert/delete lines and characters.  They call the  *)
(* operations of altscreen.rs and line.rs.                                 *)
(***************************************************************************)
Screen_insert_lines(screen, n) ==
  IF screen.grid.kind = "Scrollback"
    THEN Screen_ok([screen EXCEPT !.grid =
           Scrollback_insert_lines(screen.grid, screen.size, screen.cursor, n)])
  ELSE IF AltScreen_insert_lines_panics(screen.grid, screen.cursor, n)
    THEN Screen_panic(screen)
  ELSE Screen_ok([screen EXCEPT !.grid =
           AltScreen_insert_lines(screen.grid, screen.cursor, n)])

Screen_delete_lines(screen, n) ==
  IF screen.grid.kind = "Scrollback"
    THEN Screen_ok([screen EXCEPT !.grid =
           Scrollback_delete_lines(screen.grid, screen.size, screen.cursor, n)])
  ELSE IF AltScreen_delete_lines_panics(screen.grid, screen.cursor, n)
    THEN Screen_panic(screen)
  ELSE Screen_ok([screen EXCEPT !.grid =
           AltScreen_delete_lines(screen.grid, screen.cursor, n)])

\* the index into buf of the cursor's line: 0 when the scrollback stores no
\* line there, -1 when indexing the alt screen's buf panics
Screen_cursor_line_idx(screen) ==
  IF screen.grid.kind = "Scrollback"
    THEN Scrollback_get_line_idx(screen.grid, screen.size, screen.cursor.row)
  ELSE IF AltScreen_get_line_mut_panics(screen.grid, screen.cursor.row)
    THEN 0 - 1
  ELSE screen.cursor.row + 1

Screen_insert_character(screen, n) ==
  LET idx == Screen_cursor_line_idx(screen)
  IN IF idx = 0 THEN Screen_ok(screen)
     ELSE IF idx < 0 THEN Screen_panic(screen)
     ELSE IF Line_insert_character_panics(screen.grid.buf[idx], screen.cursor.col)
       THEN Screen_panic(screen)
     ELSE Screen_ok([screen EXCEPT !.grid.buf[idx] =
            Line_insert_character(screen.grid.buf[idx], screen.size.width,
                                  screen.cursor.col, n)])

Screen_delete_character(screen, attrs, n) ==
  LET idx == Screen_cursor_line_idx(screen)
  IN IF idx = 0 THEN Screen_ok(screen)
     ELSE IF idx < 0 THEN Screen_panic(screen)
     ELSE IF Line_delete_character_panics(screen.grid.buf[idx],
               screen.size.width, screen.cursor.col, n)
       THEN Screen_panic(screen)
     ELSE Screen_ok([screen EXCEPT !.grid.buf[idx] =
            Line_delete_character(screen.grid.buf[idx], screen.size.width,
                                  screen.cursor.col, attrs, n)])

(***************************************************************************)
(* term.rs: ControlCode, the dictionary of control codes, Color codes and  *)
(* Attrs::transition_to.  A control code is a record [k, c, params,        *)
(* interm]: k is "csi" or "esc", c the action character or the final byte, *)
(* params the sequence of parameter groups, interm the intermediates.      *)
(* The same record shape stands for the parser's callbacks: k = "print"    *)
(* with the character in c, k = "execute" with the byte in c.              *)
(***************************************************************************)
CSI(params, interm, action) ==
  [c |-> action, k |-> "csi", params |-> params, interm |-> interm]
ESC(byte) == [c |-> byte, k |-> "esc", params |-> <<>>, interm |-> ""]
MalformedCSI(params, interm, action) ==
  [c |-> action, k |-> "csi_malformed", params |-> params, interm |-> interm]
MalformedESC(byte) ==
  [c |-> byte, k |-> "esc_malformed", params |-> <<>>, interm |-> ""]
PrintChar(ch) == [c |-> ch, k |-> "print", params |-> <<>>, interm |-> ""]
ExecuteByte(b) == [c |-> b, k |-> "execute", params |-> <<>>, interm |-> ""]

SgrCode(n) == CSI(<< <<n>> >>, "", "m")

\* ControlCodes::cursor_position
ControlCodes_cursor_position(row, col) ==
  IF row = 1 /\ col = 1 THEN CSI(<<>>, "", "H")
  ELSE CSI(<< <<row>>, <<col>> >>, "", "H")

\* ControlCodes::set_scroll_region
ControlCodes_set_scroll_region(top, bottom) ==
  CSI(<< <<top>>, <<bottom>> >>, "", "r")

\* ControlCodes::scroll_up, scroll_down
ControlCodes_scroll_up(n) ==
  CSI(IF n = 1 THEN <<>> ELSE << <<n>> >>, "", "S")
ControlCodes_scroll_down(n) ==
  CSI(IF n = 1 THEN <<>> ELSE << <<n>> >>, "", "T")

\* control_codes().clear_attrs, clear_screen
ControlCodes_clear_attrs == CSI(<<>>, "", "m")
ControlCodes_clear_screen == CSI(<<>>, "", "J")

\* Crlf
Crlf == << ExecuteByte("CR"), ExecuteByte("LF") >>

\* Color::fgcode with ControlCodes::fgcolor_idx, fgcolor_rgb
Color_fgcode(color) ==
  CASE color[1] = "Default" -> SgrCode(39)
    [] color[1] = "Idx" ->
         IF color[2] < 8 THEN SgrCode(color[2] + 30)
         ELSE IF color[2] < 16 THEN SgrCode(color[2] + 82)
         ELSE CSI(<< <<38>>, <<5>>, <<color[2]>> >>, "", "m")
    [] OTHER ->
         CSI(<< <<38>>, <<2>>, <<color[2]>>, <<color[3]>>, <<color[4]>> >>,
             "", "m")

\* Color::bgcode with ControlCodes::bgcolor_idx, bgcolor_rgb
Color_bgcode(color) ==
  CASE color[1] = "Default" -> SgrCode(49)
    [] color[1] = "Idx" ->
         IF color[2] < 8 THEN SgrCode(color[2] + 40)
         ELSE IF color[2] < 16 THEN SgrCode(color[2] + 92)
         ELSE CSI(<< <<48>>, <<5>>, <<color[2]>> >>, "", "m")
    [] OTHER ->
         CSI(<< <<48>>, <<2>>, <<color[2]>>, <<color[3]>>, <<color[4]>> >>,
             "", "m")

\* ControlCode::fuse_csi: consecutive CSI codes with the same action and
\* intermediates become one code with all their parameters; cur is <<>> or
\* <<the code being built>>
RECURSIVE Fuse_from(_, _, _)
Fuse_from(codes, fused, cur) ==
  IF codes = <<>> THEN fused \o cur
  ELSE LET code == Head(codes)
       IN IF code.k = "csi"
            THEN IF cur # <<>> /\ cur[1].c = code.c /\ cur[1].interm = code.interm
                   THEN Fuse_from(Tail(codes), fused,
                          <<[cur[1] EXCEPT !.params = cur[1].params \o code.params]>>)
                   ELSE Fuse_from(Tail(codes), fused \o cur, <<code>>)
            ELSE Fuse_from(Tail(codes), (fused \o cur) \o <<code>>, <<>>)

ControlCode_fuse_csi(codes) == Fuse_from(codes, <<>>, <<>>)

\* the codes of one bool attribute and of one Option attribute
Transition_bool(prev, next, on, undo) ==
  IF prev /\ ~next THEN <<SgrCode(undo)>>
  ELSE IF ~prev /\ next THEN <<SgrCode(on)>>
  ELSE <<>>

Transition_option(prev, next, undo, first, first_code, second_code) ==
  LET style == IF next = first THEN SgrCode(first_code) ELSE SgrCode(second_code)
  IN IF prev = "None" /\ next = "None" THEN <<>>
     ELSE IF next = "None" THEN <<SgrCode(undo)>>
     ELSE IF prev = "None" THEN <<style>>
     ELSE <<SgrCode(undo), style>>

\* Attrs::transition_to
Attrs_transition_to(prev, next) ==
  ControlCode_fuse_csi(
       (IF prev.fgcolor # next.fgcolor THEN <<Color_fgcode(next.fgcolor)>> ELSE <<>>)
    \o (IF prev.bgcolor # next.bgcolor THEN <<Color_bgcode(next.bgcolor)>> ELSE <<>>)
    \o Transition_bool(prev.italic, next.italic, 3, 23)
    \o Transition_option(prev.underline, next.underline, 24, "Single", 4, 21)
    \o Transition_bool(prev.inverse, next.inverse, 7, 27)
    \o Transition_option(prev.font_weight, next.font_weight, 22, "Bold", 1, 2)
    \o Transition_option(prev.blink, next.blink, 25, "Slow", 5, 6)
    \o Transition_bool(prev.conceal, next.conceal, 8, 28)
    \o Transition_bool(prev.strikethrough, next.strikethrough, 9, 29)
    \o Transition_option(prev.framed, next.framed, 54, "Frame", 51, 52)
    \o Transition_bool(prev.overline, next.overline, 53, 55))

(***************************************************************************)
(* cell.rs, line.rs, scrollback.rs, altscreen.rs, screen.rs: the dump      *)
(* (AsTermInput::term_input_into), as the sequence of control codes and    *)
(* characters written.                                                     *)
(***************************************************************************)
\* impl AsTermInput for Cell
Cell_term_input(cell) ==
  (IF cell.gc # "" THEN <<PrintChar(cell.gc)>> ELSE <<>>)
  \o (IF cell.empty /\ ~cell.wide_padding THEN <<PrintChar(" ")>> ELSE <<>>)

\* impl AsTermInput for Line
RECURSIVE Line_term_input_from(_, _)
Line_term_input_from(cells, current_attrs) ==
  IF cells = <<>>
    THEN IF current_attrs # AttrsDefault
           THEN Attrs_transition_to(current_attrs, AttrsDefault) ELSE <<>>
    ELSE LET cell == Head(cells)
         IN (IF cell.attrs # current_attrs
               THEN Attrs_transition_to(current_attrs, cell.attrs) ELSE <<>>)
            \o Cell_term_input(cell)
            \o Line_term_input_from(Tail(cells), cell.attrs)

Line_term_input(line) == Line_term_input_from(line.cells, AttrsDefault)

\* impl AsTermInput for Scrollback: from the back of buf to the front, a
\* Crlf after every line but the one at index 0
RECURSIVE Scrollback_term_input_from(_, _)
Scrollback_term_input_from(buf, k) ==
  IF k = 0 THEN <<>>
  ELSE Line_term_input(buf[k]) \o (IF k # 1 THEN Crlf ELSE <<>>)
       \o Scrollback_term_input_from(buf, k - 1)

Scrollback_term_input(sb) == Scrollback_term_input_from(sb.buf, Len(sb.buf))

\* impl AsTermInput for ScrollRegion
ScrollRegion_term_input(region) ==
  IF region.kind = "Window"
    THEN <<ControlCodes_set_scroll_region(region.top + 1, region.bottom)>>
    ELSE <<>>

\* impl AsTermInput for AltScreen
RECURSIVE AltScreen_lines_term_input(_, _)
AltScreen_lines_term_input(buf, k) ==
  IF k > Len(buf) THEN <<>>
  ELSE Line_term_input(buf[k]) \o (IF k # Len(buf) THEN Crlf ELSE <<>>)
       \o AltScreen_lines_term_input(buf, k + 1)

AltScreen_term_input(alt) ==
  AltScreen_lines_term_input(alt.buf, 1) \o ScrollRegion_term_input(alt.scroll_region)

\* impl AsTermInput for Screen
Screen_term_input(screen) ==
  (IF screen.grid.kind = "Scrollback" THEN Scrollback_term_input(screen.grid)
   ELSE AltScreen_term_input(screen.grid))
  \o <<ControlCodes_cursor_position(screen.cursor.row + 1, screen.cursor.col + 1)>>

(***************************************************************************)
(* lib.rs: State and Term.  A terminal is a record [scrollback, altscreen, *)
(* screen_mode, cursor_attrs, status]; status is "ok" until a callback     *)
(* panics ("panic") or never returns ("hang").                             *)
(***************************************************************************)
\* State::new
State_new(scrollback_lines, size) ==
  [scrollback |-> Screen_scrollback(scrollback_lines, size),
   altscreen |-> Screen_alt(size),
   screen_mode |-> "Scrollback",
   cursor_attrs |-> AttrsDefault,
   status |-> "ok"]

\* Term::new
Term_new(scrollback_lines, size) == State_new(scrollback_lines, size)

\* the stuck selector: every callback works on the scrollback screen
screen_mut_stuck(t) == "scrollback"

\* State::screen_mut and State::screen: the field holding the active screen
screen_mut(t) ==
  IF t.screen_mode = "Scrollback" THEN "scrollback" ELSE "altscreen"

ActiveScreen(t) == t[screen_mut(t)]
WithScreen(t, screen) == [t EXCEPT ![screen_mut(t)] = screen]

\* the terminal after a screen operation returning [status, screen]
AfterScreenOp(t, r) ==
  IF r.status \in {"panic", "hang"} THEN [t EXCEPT !.status = r.status]
  ELSE WithScreen(t, r.screen)

\* Term::size
Term_size(t) == ActiveScreen(t).size

\* Term::scrollback_lines
Term_scrollback_lines(t) == t.scrollback.grid.lines

\* Term::set_scrollback_lines
Term_set_scrollback_lines(t, scrollback_lines) ==
  [t EXCEPT !.scrollback = Screen_set_scrollback_lines(t.scrollback, scrollback_lines)]

\* Term::resize
Term_resize(t, size) ==
  LET t1 == IF size.height > Term_scrollback_lines(t)
              THEN Term_set_scrollback_lines(t, size.height) ELSE t
  IN [t1 EXCEPT !.scrollback = Screen_resize(t1.scrollback, size),
                !.altscreen  = Screen_resize(t1.altscreen, size)]

\* vte::Perform::print
Perform_print(t, ch) ==
  IF CellNewPanics(ch) THEN [t EXCEPT !.status = "panic"]
  ELSE AfterScreenOp(t, Screen_write_at_cursor(ActiveScreen(t),
                                               Cell_new(ch, t.cursor_attrs)))

\* vte::Perform::execute
Perform_execute(t, byte) ==
  LET screen == ActiveScreen(t)
  IN CASE byte = "LF" -> WithScreen(t, [screen EXCEPT !.cursor.row = @ + 1])
       [] byte = "CR" -> WithScreen(t, [screen EXCEPT !.cursor.col = 0])
       [] OTHER -> t

\* p1_or: the first subparameter of all groups, `default` when 0 or missing
RECURSIVE First_subparam(_)
First_subparam(params) ==
  IF params = <<>> THEN 0
  ELSE IF Head(params) # <<>> THEN Head(params)[1]
  ELSE First_subparam(Tail(params))

p1_or(params, default) ==
  IF First_subparam(params) = 0 THEN default ELSE First_subparam(params)

\* the first subparameter of parameter group i, 1 when there is none (CUP)
Param_or_one(params, i) ==
  IF Len(params) >= i /\ params[i] # <<>> THEN params[i][1] ELSE 1

\* csi_dispatch, the cursor movement arms 'A' to 'H'
Csi_cursor(t, params, action) ==
  LET screen == ActiveScreen(t)
      n      == p1_or(params, 1)
      cur    == screen.cursor
  IN CASE action = "A" ->
            WithScreen(t, [screen EXCEPT !.cursor.row = SatSub(cur.row, n)])
       [] action = "B" ->
            WithScreen(t, Screen_clamp([screen EXCEPT !.cursor.row = cur.row + n]))
       [] action = "C" ->
            WithScreen(t, Screen_clamp([screen EXCEPT !.cursor.col = cur.col + n]))
       [] action = "D" ->
            WithScreen(t, [screen EXCEPT !.cursor.col = SatSub(cur.col, n)])
       [] action = "E" ->
            WithScreen(t, Screen_clamp([screen EXCEPT !.cursor = Pos(cur.row + n, 0)]))
       [] action = "F" ->
            WithScreen(t, [screen EXCEPT !.cursor = Pos(SatSub(cur.row, n), 0)])
       [] action = "G" ->
            WithScreen(t, Screen_clamp([screen EXCEPT !.cursor.col = n - 1]))
       [] OTHER ->
            WithScreen(t, Screen_clamp([screen EXCEPT !.cursor =
              Pos(SatSub(Param_or_one(params, 1), 1),
                  SatSub(Param_or_one(params, 2), 1))]))

\* csi_dispatch 'J', one parameter group
Csi_J_code(t, code) ==
  CASE code = <<>> \/ code = <<0>> ->
         AfterScreenOp(t, Screen_erase_to_end(ActiveScreen(t)))
    [] code = <<1>> -> AfterScreenOp(t, Screen_erase_from_start(ActiveScreen(t)))
    [] code = <<2>> -> AfterScreenOp(t, Screen_erase(ActiveScreen(t), FALSE))
    [] code = <<3>> -> AfterScreenOp(t, Screen_erase(ActiveScreen(t), TRUE))
    [] OTHER -> t

\* csi_dispatch 'K', one parameter group
Csi_K_code(t, code) ==
  CASE code = <<>> \/ code = <<0>> ->
         AfterScreenOp(t, Screen_erase_to_end_of_line(ActiveScreen(t)))
    [] code = <<1>> ->
         AfterScreenOp(t, Screen_erase_to_start_of_line(ActiveScreen(t)))
    [] code = <<2>> -> AfterScreenOp(t, Screen_erase_line(ActiveScreen(t)))
    [] OTHER -> t

\* csi_dispatch 'm', one parameter group
Csi_m_code(attrs, param) ==
  IF Len(param) < 1 THEN attrs
  ELSE CASE param[1] = 0  -> AttrsDefault
         [] param[1] = 4  -> [attrs EXCEPT !.underline = "Single"]
         [] param[1] = 21 -> [attrs EXCEPT !.underline = "Single"]
         [] param[1] = 24 -> [attrs EXCEPT !.underline = "None"]
         [] param[1] = 1  -> [attrs EXCEPT !.font_weight = "Bold"]
         [] param[1] = 22 -> [attrs EXCEPT !.font_weight = "None"]
         [] param[1] = 3  -> [attrs EXCEPT !.italic = TRUE]
         [] param[1] = 23 -> [attrs EXCEPT !.italic = FALSE]
         [] param[1] = 7  -> [attrs EXCEPT !.inverse = TRUE]
         [] param[1] = 27 -> [attrs EXCEPT !.inverse = FALSE]
         [] OTHER -> attrs

RECURSIVE Csi_m(_, _)
Csi_m(attrs, params) ==
  IF params = <<>> THEN attrs
  ELSE Csi_m(Csi_m_code(attrs, Head(params)), Tail(params))

\* csi_dispatch 'J' and 'K': every parameter group in turn
RECURSIVE Csi_J(_, _)
Csi_J(t, params) ==
  IF params = <<>> \/ t.status # "ok" THEN t
  ELSE Csi_J(Csi_J_code(t, Head(params)), Tail(params))

RECURSIVE Csi_K(_, _)
Csi_K(t, params) ==
  IF params = <<>> \/ t.status # "ok" THEN t
  ELSE Csi_K(Csi_K_code(t, Head(params)), Tail(params))

\* csi_dispatch 's' and 'u'
Csi_s(t) ==
  LET screen == ActiveScreen(t)
  IN WithScreen(t, [screen EXCEPT !.saved_cursor.pos = screen.cursor])

Csi_u(t) ==
  LET screen == ActiveScreen(t)
  IN WithScreen(t, [screen EXCEPT !.cursor = screen.saved_cursor.pos])

\* DECOM (CSI ? 6 h and CSI ? 6 l, spec 4.8): the origin mode of the active
\* screen
Decom(t, mode) ==
  LET screen == ActiveScreen(t)
  IN WithScreen(t, [screen EXCEPT !.grid.origin_mode = mode])

\* csi_dispatch 'h' with the intermediate '?': 1049 clobbers the alt screen
\* and makes it active; any other code but DECOM's ends the handler
RECURSIVE Csi_h(_, _)
Csi_h(t, params) ==
  IF params = <<>> THEN t
  ELSE IF Head(params) = <<1049>>
    THEN Csi_h([t EXCEPT !.altscreen = Screen_alt(t.altscreen.size),
                         !.screen_mode = "Alt"], Tail(params))
  ELSE IF Head(params) = <<6>>
    THEN Csi_h(Decom(t, "ScrollRegion"), Tail(params))
  ELSE t

\* csi_dispatch 'l' with the intermediate '?'
RECURSIVE Csi_l(_, _)
Csi_l(t, params) ==
  IF params = <<>> THEN t
  ELSE IF Head(params) = <<1049>>
    THEN Csi_l([t EXCEPT !.screen_mode = "Scrollback"], Tail(params))
  ELSE IF Head(params) = <<6>>
    THEN Csi_l(Decom(t, "Term"), Tail(params))
  ELSE t

\* DECSTBM (CSI t ; b r, spec 4.8): no args is TrackSize, (t,) is
\* Window{t-1, height}, (,b) is Window{0, b}, (t,b) is Window{t-1, b}
Decstbm(t, params) ==
  LET screen == ActiveScreen(t)
      top    == IF Len(params) >= 1 /\ params[1] # <<>> THEN params[1][1] ELSE 0
      bottom == IF Len(params) >= 2 /\ params[2] # <<>> THEN params[2][1] ELSE 0
      region == IF top = 0 /\ bottom = 0 THEN TrackSize
                ELSE IF bottom = 0 THEN Window(top - 1, screen.size.height)
                ELSE IF top = 0 THEN Window(0, bottom)
                ELSE Window(top - 1, bottom)
  IN WithScreen(t, [screen EXCEPT !.grid.scroll_region = region])

\* IL, DL, ICH, DCH (CSI n L, M, @, P, spec 4.8)
Csi_shift(t, params, action) ==
  LET n == p1_or(params, 1)
  IN CASE action = "L" -> AfterScreenOp(t, Screen_insert_lines(ActiveScreen(t), n))
       [] action = "M" -> AfterScreenOp(t, Screen_delete_lines(ActiveScreen(t), n))
       [] action = "@" ->
            AfterScreenOp(t, Screen_insert_character(ActiveScreen(t), n))
       [] OTHER ->
            AfterScreenOp(t, Screen_delete_character(ActiveScreen(t),
                                                     t.cursor_attrs, n))

\* SU, SD (CSI n S, CSI n T, spec 4.4) on the scrollback screen; the spec
\* gives the alt screen no scroll offset
Csi_scroll(t, params, action) ==
  LET screen == ActiveScreen(t)
      n      == p1_or(params, 1)
  IN IF screen.grid.kind # "Scrollback" THEN t
     ELSE WithScreen(t, [screen EXCEPT !.grid =
            IF action = "S" THEN Scrollback_scroll_up(screen.grid, n)
            ELSE Scrollback_scroll_down(screen.grid, n)])

\* a dispatcher that acts on a sequence the parser flagged malformed
Ignore_flag_unread(code) == FALSE

\* the `ignore` flag vte hands to csi_dispatch and esc_dispatch: set for a
\* sequence the parser found malformed
Ignore_flag(code) == code.k \in {"csi_malformed", "esc_malformed"}

\* vte::Perform::csi_dispatch
Perform_csi_dispatch(t, params, interm, action) ==
  CASE action \in {"A", "B", "C", "D", "E", "F", "G", "H"} ->
         Csi_cursor(t, params, action)
    [] action = "J" -> Csi_J(t, params)
    [] action = "K" -> Csi_K(t, params)
    [] action = "s" -> Csi_s(t)
    [] action = "u" -> Csi_u(t)
    [] action = "h" -> IF interm = "?" THEN Csi_h(t, params) ELSE t
    [] action = "l" -> IF interm = "?" THEN Csi_l(t, params) ELSE t
    [] action = "m" -> [t EXCEPT !.cursor_attrs = Csi_m(t.cursor_attrs, params)]
    [] action = "r" -> Decstbm(t, params)
    [] action \in {"L", "M", "@", "P"} -> Csi_shift(t, params, action)
    [] action \in {"S", "T"} -> Csi_scroll(t, params, action)
    [] OTHER -> t

\* an ESC 8 that restores the position only
Perform_esc_dispatch_pos_only(t, byte) ==
  LET screen == ActiveScreen(t)
  IN CASE byte = "7" ->
            WithScreen(t, [screen EXCEPT !.saved_cursor =
                             [pos |-> screen.cursor, attrs |-> t.cursor_attrs]])
       [] byte = "8" ->
            WithScreen(t, [screen EXCEPT !.cursor = screen.saved_cursor.pos])
       [] OTHER -> t

\* vte::Perform::esc_dispatch
Perform_esc_dispatch(t, byte) ==
  LET screen == ActiveScreen(t)
  IN CASE byte = "7" ->
            WithScreen(t, [screen EXCEPT !.saved_cursor =
                             [pos |-> screen.cursor, attrs |-> t.cursor_attrs]])
       [] byte = "8" ->
            [WithScreen(t, [screen EXCEPT !.cursor = screen.saved_cursor.pos])
               EXCEPT !.cursor_attrs = screen.saved_cursor.attrs]
       [] OTHER -> t

\* the parameters vte hands to csi_dispatch: the parser always pushes the
\* parameter it is reading, so a sequence without parameters carries [[0]]
Vte_params(params) == IF params = <<>> THEN << <<0>> >> ELSE params

\* Term::process for the bytes of one character or one control code: the
\* callback vte makes.  A terminal that panicked or hangs takes no input.
Term_process(t, code) ==
  IF t.status # "ok" THEN t
  ELSE CASE code.k = "print"   -> Perform_print(t, code.c)
         [] code.k = "execute" -> Perform_execute(t, code.c)
         [] code.k \in {"csi", "csi_malformed"} ->
              IF Ignore_flag(code) THEN t
              ELSE Perform_csi_dispatch(t, Vte_params(code.params), code.interm,
                                        code.c)
         [] OTHER ->
              IF Ignore_flag(code) THEN t ELSE Perform_esc_dispatch(t, code.c)

\* Term::process for a sequence of characters and control codes
RECURSIVE Term_process_all(_, _)
Term_process_all(t, codes) ==
  IF codes = <<>> THEN t
  ELSE Term_process_all(Term_process(t, Head(codes)), Tail(codes))

\* impl AsTermInput for State
State_term_input(t) ==
  Screen_term_input(ActiveScreen(t))
  \o <<ControlCodes_clear_attrs>>
  \o Attrs_transition_to(AttrsDefault, t.cursor_attrs)

\* Term::contents
Term_contents(t) ==
  <<ControlCodes_clear_attrs, ControlCodes_cursor_position(1, 1),
    ControlCodes_clear_screen>> \o State_term_input(t)

(***************************************************************************)
(* The state machine.  term is the terminal, last the operation that made  *)
(* the current state with its argument, steps the number of operations     *)
(* applied so far.                                                         *)
(***************************************************************************)
VARIABLES term, last, steps

vars == <<term, last, steps>>

Chars    == {"a", "W", "z"}
Params   == 1..MaxParam
EdCodes  == 0..3
ElCodes  == 0..2
SgrCodes == {0, 1}
Sizes    == {Size(w, h) : w \in Widths, h \in Heights}

\* Term::new with any capacity and size
Init ==
  /\ \E n \in 0..MaxLines, size \in Sizes : term = Term_new(n, size)
  /\ last = [op |-> "new", arg |-> <<>>]
  /\ steps = 0

\* Term::process of the bytes of one character or control code
Process(code) ==
  /\ steps < MaxSteps
  /\ term.status = "ok"
  /\ term' = Term_process(term, code)
  /\ last' = [op |-> "process", arg |-> code]
  /\ steps' = steps + 1

ProcessPrint   == \E ch \in Chars : Process(PrintChar(ch))
ProcessExecute == \E b \in {"LF", "CR"} : Process(ExecuteByte(b))
ProcessCUU == \E n \in Params : Process(CSI(<< <<n>> >>, "", "A"))
ProcessCUD == \E n \in Params : Process(CSI(<< <<n>> >>, "", "B"))
ProcessCUF == \E n \in Params : Process(CSI(<< <<n>> >>, "", "C"))
ProcessCUB == \E n \in Params : Process(CSI(<< <<n>> >>, "", "D"))
ProcessCNL == \E n \in Params : Process(CSI(<< <<n>> >>, "", "E"))
ProcessCPL == \E n \in Params : Process(CSI(<< <<n>> >>, "", "F"))
ProcessCHA == \E n \in Params : Process(CSI(<< <<n>> >>, "", "G"))
ProcessCUP == \E r \in Params, c \in Params : Process(ControlCodes_cursor_position(r, c))
ProcessED  == \E n \in EdCodes : Process(CSI(<< <<n>> >>, "", "J"))
ProcessEL  == \E n \in ElCodes : Process(CSI(<< <<n>> >>, "", "K"))
ProcessSCP == Process(CSI(<<>>, "", "s"))
ProcessRCP == Process(CSI(<<>>, "", "u"))
ProcessDECSET == \E n \in {1049, 6} : Process(CSI(<< <<n>> >>, "?", "h"))
ProcessDECRST == \E n \in {1049, 6} : Process(CSI(<< <<n>> >>, "?", "l"))
ProcessSGR == \E n \in SgrCodes : Process(SgrCode(n))
ProcessDECSTBM ==
  \/ Process(CSI(<<>>, "", "r"))
  \/ \E t \in Params, b \in Params : Process(ControlCodes_set_scroll_region(t, b))
ProcessIL  == \E n \in Params : Process(CSI(<< <<n>> >>, "", "L"))
ProcessDL  == \E n \in Params : Process(CSI(<< <<n>> >>, "", "M"))
ProcessICH == \E n \in Params : Process(CSI(<< <<n>> >>, "", "@"))
ProcessDCH == \E n \in Params : Process(CSI(<< <<n>> >>, "", "P"))
ProcessSU  == \E n \in Params : Process(ControlCodes_scroll_up(n))
ProcessSD  == \E n \in Params : Process(ControlCodes_scroll_down(n))
ProcessDECSC == Process(ESC("7"))
ProcessDECRC == Process(ESC("8"))
\* a sequence no arm handles: DSR (CSI 6 n)
ProcessUnhandled == Process(CSI(<< <<6>> >>, "", "n"))
\* an ESC sequence no arm handles: RIS (ESC c)
ProcessUnhandledESC == Process(ESC("c"))
\* sequences the parser flags malformed: a CUP and a DECSC
ProcessMalformed ==
  \/ Process(MalformedCSI(<< <<2>>, <<2>> >>, "", "H"))
  \/ Process(MalformedESC("7"))

\* Term::resize
Resize ==
  /\ steps < MaxSteps
  /\ term.status = "ok"
  /\ \E size \in Sizes :
       /\ term' = Term_resize(term, size)
       /\ last' = [op |-> "resize", arg |-> size]
  /\ steps' = steps + 1

\* Term::set_scrollback_lines
SetScrollbackLines ==
  /\ steps < MaxSteps
  /\ term.status = "ok"
  /\ \E n \in 0..MaxLines :
       /\ term' = Term_set_scrollback_lines(term, n)
       /\ last' = [op |-> "set_scrollback_lines", arg |-> n]
  /\ steps' = steps + 1

Next ==
  \/ ProcessPrint \/ ProcessExecute
  \/ ProcessCUU \/ ProcessCUD \/ ProcessCUF \/ ProcessCUB
  \/ ProcessCNL \/ ProcessCPL \/ ProcessCHA \/ ProcessCUP
  \/ ProcessED \/ ProcessEL \/ ProcessSCP \/ ProcessRCP
  \/ ProcessDECSET \/ ProcessDECRST \/ ProcessSGR \/ ProcessDECSTBM
  \/ ProcessIL \/ ProcessDL \/ ProcessICH \/ ProcessDCH
  \/ ProcessSU \/ ProcessSD
  \/ ProcessDECSC \/ ProcessDECRC \/ ProcessUnhandled
  \/ ProcessUnhandledESC \/ ProcessMalformed
  \/ Resize \/ SetScrollbackLines

Spec == Init /\ [][Next]_vars

(***************************************************************************)
(* Properties of the terminal under Spec.                                  *)
(***************************************************************************)
IsProcess(code) == last.op = "process" /\ last.arg = code
Lines(screen) == {screen.grid.buf[i] : i \in 1..Len(screen.grid.buf)}

\* C1: for every reachable state (any input, either screen active), feeding
\* contents() to a fresh terminal of the same size and scrollback capacity
\* gives a terminal whose contents() is identical.
C1_ContentsRoundTrip ==
  term.status = "ok" =>
    LET dump   == Term_contents(term)
        replay == Term_process_all(
                    Term_new(Term_scrollback_lines(term), Term_size(term)), dump)
    IN replay.status = "ok" /\ Term_contents(replay) = dump

\* C2: while the alt screen is active, from the step that enters it to the
\* step that leaves it, no input given to process changes the scrollback
\* screen: its lines, cursor, saved cursor, scroll region and origin mode, and
\* with them the lines and cursor position its dump shows, stay as they were.
C2_AltLeavesScrollback ==
  [][(last'.op = "process" /\ (term.screen_mode = "Alt" \/ term'.screen_mode = "Alt"))
       => /\ term'.scrollback = term.scrollback
          /\ Screen_term_input(term'.scrollback) = Screen_term_input(term.scrollback)]_vars

\* the alt screen was left (CSI ? 1049 l) after a cell was written on it,
\* with lines stored on the scrollback screen or not
C2_Witness ==
  /\ IsProcess(CSI(<< <<1049>> >>, "?", "l"))
  /\ term.screen_mode = "Scrollback"
  /\ \E l \in Lines(term.altscreen) : l.cells # <<>>

\* C3: process returns normally for every input in every reachable state of
\* a terminal at least 1 wide and 1 high: no index out of range, no integer
\* underflow, no failed assertion, no loop that never ends.
C3_ProcessReturns == term.status = "ok"

\* C4: the scrollback buffer never holds more lines than its capacity.
C4_ScrollbackWithinCapacity ==
  Len(term.scrollback.grid.buf) <= term.scrollback.grid.lines

\* C5: after Term::new, resize and set_scrollback_lines with any arguments,
\* scrollback_lines() is at least size().height.
C5_CapacityAtLeastHeight ==
  last.op \in {"new", "resize", "set_scrollback_lines"}
    => Term_scrollback_lines(term) >= Term_size(term).height

\* C6: the alt screen buffer always holds exactly size.height lines.
C6_AltScreenHeight ==
  Len(term.altscreen.grid.buf) = term.altscreen.size.height

\* a character printed at the bottom right of the alt screen scrolled it:
\* the line written is gone and the cursor is back in the last row
C6_Witness ==
  /\ last.op = "process" /\ last.arg.k = "print"
  /\ term.status = "ok"
  /\ term.screen_mode = "Alt"
  /\ \A l \in Lines(term.altscreen) : l.cells = <<>>
  /\ term.altscreen.cursor = Pos(term.altscreen.size.height - 1, 0)

\* C7: every line stored on either screen has at most size.width cells.
C7_LinesWithinWidth ==
  /\ \A l \in Lines(term.scrollback) : Len(l.cells) <= term.scrollback.size.width
  /\ \A l \in Lines(term.altscreen) : Len(l.cells) <= term.altscreen.size.width

\* a resize reflowed the scrollback into lines that fill the new width
C7_Witness ==
  /\ last.op = "resize"
  /\ \E l \in Lines(term.scrollback) :
       l.is_wrapped /\ Len(l.cells) = term.scrollback.size.width

\* C9: with a scroll region Window{top, bottom} and origin mode ScrollRegion,
\* CUP(r, c) puts the cursor at row min(top + (r - 1), bottom - 1) and column
\* min(c - 1, width - 1).
C9_OriginModeCup ==
  LET screen == ActiveScreen(term)
      region == screen.grid.scroll_region
      r      == Param_or_one(last.arg.params, 1)
      c      == Param_or_one(last.arg.params, 2)
  IN (/\ last.op = "process" /\ last.arg.k = "csi" /\ last.arg.c = "H"
      /\ term.status = "ok"
      /\ screen.grid.origin_mode = "ScrollRegion"
      /\ region.kind = "Window"
      /\ region.top < region.bottom /\ region.bottom <= screen.size.height)
     => screen.cursor = Pos(Min(region.top + (r - 1), region.bottom - 1),
                            Min(c - 1, screen.size.width - 1))

(***************************************************************************)
(* SpecReflow: a scrollback is built by writes at one width, resized to    *)
(* another width and resized back.                                         *)
(***************************************************************************)
MaxWrites == 5
WriteChars == {"a", "W"}

MaxReflowHeight == 3
ReflowSizes == {Size(w, h) : w \in Widths, h \in 1..MaxReflowHeight}

InitReflow ==
  /\ \E size \in ReflowSizes : term = Term_new(MaxLines, size)
  /\ last = [op |-> "new", arg |-> <<>>]
  /\ steps = 0

\* Scrollback::write_at_cursor through Term::process
ReflowWrite ==
  /\ last.op \in {"new", "write"}
  /\ steps < MaxWrites
  /\ term.status = "ok"
  /\ \E ch \in WriteChars :
       /\ term' = Term_process(term, PrintChar(ch))
       /\ last' = [op |-> "write", arg |-> ch]
  /\ steps' = steps + 1

\* a carriage return and a line feed between the writes
ReflowNewline ==
  /\ last.op \in {"new", "write"}
  /\ steps < MaxWrites
  /\ term.status = "ok"
  /\ term' = Term_process_all(term, <<ExecuteByte("CR"), ExecuteByte("LF")>>)
  /\ last' = [op |-> "write", arg |-> "CRLF"]
  /\ steps' = steps + 1

\* Term::resize to another width; the scrollback as the writes built it
\* is remembered
ReflowResize ==
  /\ last.op = "write"
  /\ term.status = "ok"
  /\ \E w1 \in Widths :
       /\ term' = Term_resize(term, Size(w1, Term_size(term).height))
       /\ last' = [op |-> "resize_away",
                   arg |-> [buf |-> term.scrollback.grid.buf,
                            width |-> Term_size(term).width]]
  /\ UNCHANGED steps

\* Term::resize back to the width of the writes
ReflowBack ==
  /\ last.op = "resize_away"
  /\ term' = Term_resize(term, Size(last.arg.width, Term_size(term).height))
  /\ last' = [op |-> "resize_back", arg |-> last.arg]
  /\ UNCHANGED steps

\* Term::resize to another height at the same width
ReflowResizeHeight ==
  /\ last.op = "write"
  /\ term.status = "ok"
  /\ \E h \in (1..MaxReflowHeight) \ {Term_size(term).height} :
       /\ term' = Term_resize(term, Size(Term_size(term).width, h))
       /\ last' = [op |-> "resize_height",
                   arg |-> [buf |-> term.scrollback.grid.buf,
                            width |-> Term_size(term).width]]
  /\ UNCHANGED steps

NextReflow ==
  \/ ReflowWrite \/ ReflowNewline \/ ReflowResize \/ ReflowBack
  \/ ReflowResizeHeight

SpecReflow == InitReflow /\ [][NextReflow]_vars

\* C8: a scrollback built by writes at width W0, resized to any width
\* W1 >= 1 and back to W0, equals the scrollback the writes built at W0:
\* the same lines, cells and is_wrapped flags.
C8_ReflowRoundTrip ==
  last.op = "resize_back" => term.scrollback.grid.buf = last.arg.buf

(***************************************************************************)
(* SpecAttrs: SGR input brings the terminal's current attributes to some   *)
(* prev, then the codes of prev.transition_to(next) are fed to it.         *)
(***************************************************************************)
MaxSgrSteps == 2
HandledSgr == {0, 1, 3, 4, 7, 22, 23, 24, 27}
AttrColors == {ColorDefault, ColorIdx(1), ColorIdx(21)}
AttrsUniverse ==
  {[AttrsDefault EXCEPT !.fgcolor = fg, !.font_weight = fw, !.italic = it,
                        !.underline = ul, !.blink = bl, !.strikethrough = st] :
     fg \in AttrColors, fw \in {"None", "Bold", "Faint"}, it \in BOOLEAN,
     ul \in {"None", "Single", "Double"}, bl \in {"None", "Slow"},
     st \in BOOLEAN}

InitAttrs ==
  /\ \E size \in Sizes : term = Term_new(MaxLines, size)
  /\ last = [op |-> "new", arg |-> <<>>]
  /\ steps = 0

\* csi_dispatch 'm' with one parameter
AttrsSgr ==
  /\ last.op \in {"new", "sgr"}
  /\ steps < MaxSgrSteps
  /\ \E n \in HandledSgr :
       /\ term' = Term_process(term, SgrCode(n))
       /\ last' = [op |-> "sgr", arg |-> n]
  /\ steps' = steps + 1

\* the codes of Attrs::transition_to fed to Term::process in order
AttrsTransition ==
  /\ last.op \in {"new", "sgr"}
  /\ \E next \in AttrsUniverse :
       /\ term' = Term_process_all(term,
                    Attrs_transition_to(term.cursor_attrs, next))
       /\ last' = [op |-> "transition", arg |-> next]
  /\ UNCHANGED steps

NextAttrs == AttrsSgr \/ AttrsTransition

SpecAttrs == InitAttrs /\ [][NextAttrs]_vars

\* C10: for all attribute sets prev and next, the codes of
\* prev.transition_to(next), applied in order to a terminal whose current
\* attributes are prev, leave its current attributes equal to next.
C10_TransitionReachesNext ==
  last.op = "transition" => term.cursor_attrs = last.arg

(***************************************************************************)
(* SpecTransition: Attrs::transition_to as a function of prev and next.    *)
(***************************************************************************)
InitTransition ==
  /\ term = Term_new(MaxLines, Size(1, 1))
  /\ \E prev \in AttrsUniverse : last = [op |-> "prev", arg |-> prev]
  /\ steps = 0

\* prev.transition_to(next); the codes returned are recorded
TransitionTo ==
  /\ last.op = "prev"
  /\ \E next \in AttrsUniverse :
       last' = [op |-> "transition_to", prev |-> last.arg, arg |-> next,
                codes |-> Attrs_transition_to(last.arg, next)]
  /\ UNCHANGED <<term, steps>>

NextTransition == TransitionTo

SpecTransition == InitTransition /\ [][NextTransition]_vars

\* the attribute an SGR parameter belongs to
SgrDimension(n) ==
  CASE n \in (30..39) \cup (90..97)   -> "fgcolor"
    [] n \in (40..49) \cup (100..107) -> "bgcolor"
    [] n \in {1, 2, 22}   -> "font_weight"
    [] n \in {3, 23}      -> "italic"
    [] n \in {4, 21, 24}  -> "underline"
    [] n \in {7, 27}      -> "inverse"
    [] n \in {5, 6, 25}   -> "blink"
    [] n \in {8, 28}      -> "conceal"
    [] n \in {9, 29}      -> "strikethrough"
    [] n \in {51, 52, 54} -> "framed"
    [] n \in {53, 55}     -> "overline"
    [] OTHER              -> "none"

\* the attributes the parameters of one CSI m address, the arguments of an
\* extended color (38;5;i, 38;2;r;g;b) skipped
RECURSIVE SgrDimensions(_)
SgrDimensions(params) ==
  IF params = <<>> THEN {}
  ELSE LET n == Head(params)[1]
       IN IF n \in {38, 48} /\ Len(params) >= 2
            THEN {SgrDimension(n)} \cup
                 SgrDimensions(Drop(params, IF params[2][1] = 5 THEN 3 ELSE 5))
            ELSE {SgrDimension(n)} \cup SgrDimensions(Tail(params))

CodeDimensions(codes) ==
  UNION {SgrDimensions(codes[i].params) : i \in 1..Len(codes)}

\* C11: transition_to emits codes only for the attributes in which prev and
\* next differ; an attribute with the same value in both, the same variant
\* of weight, underline, blink or framed included, contributes no code, and
\* prev.transition_to(prev) is empty.
C11_OnlyDifferingDimensions ==
  last.op = "transition_to" =>
    /\ \A d \in CodeDimensions(last.codes) : last.prev[d] # last.arg[d]
    /\ (last.prev = last.arg => last.codes = <<>>)

(***************************************************************************)
(* The order of the dump.                                                  *)
(***************************************************************************)
\* the lines of a grid from the top one to the bottom one
LinesTopToBottom(grid) ==
  IF grid.kind = "Scrollback"
    THEN [i \in 1..Len(grid.buf) |-> grid.buf[Len(grid.buf) + 1 - i]]
    ELSE grid.buf

\* the dump of lines, a \r\n between two of them
RECURSIVE JoinLines(_)
JoinLines(lines) ==
  IF lines = <<>> THEN <<>>
  ELSE Line_term_input(Head(lines))
       \o (IF Len(lines) > 1 THEN Crlf ELSE <<>>) \o JoinLines(Tail(lines))

\* C12: every contents output is, in this order: CSI m, cursor home, CSI J;
\* the lines top to bottom separated by \r\n; the DECSTBM sequence if a
\* Window scroll region is active; CSI n S if scroll_offset > 0; the
\* cursor-position sequence of the active screen's cursor; CSI m and the
\* codes from the default attributes to cursor_attrs.
C12_ContentsOrder ==
  term.status = "ok" =>
    LET screen == ActiveScreen(term)
        grid   == screen.grid
    IN Term_contents(term) =
            <<ControlCodes_clear_attrs, ControlCodes_cursor_position(1, 1),
              ControlCodes_clear_screen>>
         \o JoinLines(LinesTopToBottom(grid))
         \o (IF grid.scroll_region.kind = "Window"
               THEN <<ControlCodes_set_scroll_region(grid.scroll_region.top + 1,
                                                     grid.scroll_region.bottom)>>
               ELSE <<>>)
         \o (IF grid.scroll_offset > 0
               THEN <<ControlCodes_scroll_up(grid.scroll_offset)>> ELSE <<>>)
         \o <<ControlCodes_cursor_position(screen.cursor.row + 1,
                                           screen.cursor.col + 1)>>
         \o <<ControlCodes_clear_attrs>>
         \o Attrs_transition_to(AttrsDefault, term.cursor_attrs)

(***************************************************************************)
(* contents(region) (spec 4.9).  A region is <<"All">>, <<"Screen">> or    *)
(* <<"BottomLines", n>>.                                                   *)
(***************************************************************************)
MaxBottomLines == 3
ContentRegions ==
  {<<"All">>, <<"Screen">>} \cup {<<"BottomLines", n>> : n \in 0..MaxBottomLines}

\* a window that ignores the scroll offset
Scrollback_window_top_at_bottom(sb, size) == Min(Len(sb.buf), size.height)

\* the index in buf of the top line of the visible window:
\* grid_start = min(buf.len(), size.height + scroll_offset)
Scrollback_window_top(sb, size) ==
  Min(Len(sb.buf), size.height + sb.scroll_offset)

\* the lines a region selects, top to bottom
Scrollback_region_lines(sb, size, region) ==
  LET top == Scrollback_window_top(sb, size)
      low == CASE region[1] = "All"    -> 1
               [] region[1] = "Screen" -> Max(1, top - size.height + 1)
               [] OTHER                -> 1
      high == CASE region[1] = "All"    -> Len(sb.buf)
                [] region[1] = "Screen" -> top
                [] OTHER                -> Min(region[2], Len(sb.buf))
  IN [i \in 1..((high - low) + 1) |-> sb.buf[high + 1 - i]]

\* whether a region holds every stored line, so that the scroll offset is
\* part of what it shows
Region_includes_scrollback(sb, region) ==
  \/ region[1] = "All"
  \/ region[1] = "BottomLines" /\ region[2] >= Len(sb.buf)

\* Term::contents with a region
Term_contents_region(t, region) ==
  LET screen == ActiveScreen(t)
      grid   == screen.grid
  IN   <<ControlCodes_clear_attrs, ControlCodes_cursor_position(1, 1),
         ControlCodes_clear_screen>>
    \o JoinLines(IF grid.kind = "Scrollback"
                   THEN Scrollback_region_lines(grid, screen.size, region)
                   ELSE grid.buf)
    \o ScrollRegion_term_input(grid.scroll_region)
    \o (IF grid.scroll_offset > 0 /\ Region_includes_scrollback(grid, region)
          THEN <<ControlCodes_scroll_up(grid.scroll_offset)>> ELSE <<>>)
    \o <<ControlCodes_cursor_position(screen.cursor.row + 1,
                                      screen.cursor.col + 1)>>
    \o <<ControlCodes_clear_attrs>>
    \o Attrs_transition_to(AttrsDefault, t.cursor_attrs)

\* what a dump shows: the characters it prints with the line breaks between
\* them, and the CSI sequences with a given final byte
RECURSIVE ShownText(_)
ShownText(codes) ==
  IF codes = <<>> THEN <<>>
  ELSE (IF Head(codes).k = "print" THEN <<Head(codes).c>>
        ELSE IF Head(codes).k = "execute" /\ Head(codes).c = "LF" THEN <<"\n">>
        ELSE <<>>) \o ShownText(Tail(codes))

RECURSIVE CsiWith(_, _)
CsiWith(codes, action) ==
  IF codes = <<>> THEN <<>>
  ELSE (IF Head(codes).k = "csi" /\ Head(codes).c = action
          THEN <<Head(codes)>> ELSE <<>>) \o CsiWith(Tail(codes), action)

\* the text of the cells of a stored line from cell k on
RECURSIVE CellsText(_, _)
CellsText(cells, k) ==
  IF k > Len(cells) THEN <<>>
  ELSE (IF cells[k].wide_padding THEN <<>>
        ELSE IF cells[k].empty THEN <<" ">> ELSE <<cells[k].gc>>)
       \o CellsText(cells, k + 1)

\* the text of the stored lines buf[high] down to buf[low]
RECURSIVE StoredText(_, _, _)
StoredText(buf, high, low) ==
  IF high < low THEN <<>>
  ELSE CellsText(buf[high].cells, 1) \o (IF high > low THEN <<"\n">> ELSE <<>>)
       \o StoredText(buf, high - 1, low)

C14_IgnoredChangesNothing ==
  [][(/\ last'.op = "process"
      /\ \/ last'.arg.k \in {"csi_malformed", "esc_malformed"}
         \/ last'.arg.k = "csi" /\ last'.arg.c = "n"
         \/ last'.arg.k = "esc" /\ last'.arg.c = "c")
       => term' = term]_vars

\* a malformed CUP arrived with the cursor away from the place it names and
\* with cells stored on the screen
C14_Witness ==
  /\ last.op = "process" /\ last.arg.k = "csi_malformed"
  /\ ActiveScreen(term).cursor # Pos(1, 1)
  /\ ActiveScreen(term).size = Size(2, 2)
  /\ \E l \in Lines(ActiveScreen(term)) : l.cells # <<>>

\* C15: on the scrollback screen, for every k >= 1, the print that follows k
\* line feeds on the bottom row stores its cell on the bottom row of the
\* window; the window has scrolled up by k lines, the lines scrolled off are
\* kept up to the capacity, and the cursor row after the print is height - 1.
C15_PrintAfterLineFeeds ==
  [][LET screen == term.scrollback
         k      == screen.cursor.row - (screen.size.height - 1)
         buf    == screen.grid.buf
         buf2   == term'.scrollback.grid.buf
     IN (/\ last'.op = "process" /\ last'.arg.k = "print"
         /\ CharWidth(last'.arg.c) = 1
         /\ term.screen_mode = "Scrollback"
         /\ screen.grid.scroll_region.kind = "TrackSize"
         /\ screen.size.height >= 1
         /\ screen.cursor.col < screen.size.width
         /\ k >= 1)
        => /\ term'.status = "ok"
           /\ term'.scrollback.cursor =
                Pos(screen.size.height - 1, screen.cursor.col + 1)
           /\ Len(buf2) >= 1
           /\ Len(buf2[1].cells) > screen.cursor.col
           /\ buf2[1].cells[screen.cursor.col + 1].gc = last'.arg.c
           /\ \A i \in 1..Len(buf) :
                i + k <= screen.grid.lines => /\ i + k <= Len(buf2)
                                              /\ buf2[i + k] = buf[i]]_vars

\* C16: every print terminates, after allocating a bounded number of lines,
\* whatever the cursor row is, a row at or beyond the capacity reached by
\* repeated line feeds included.
C16_PrintTerminates ==
  (last.op = "process" /\ last.arg.k = "print")
    => term.status # "hang"

\* C17: on the alt screen, a print that follows a line feed on the bottom row
\* (cursor.row = height at the write) scrolls the buffer up by one line and
\* stores the cell on the bottom row; the write never addresses a line index
\* at or beyond the height.
C17_AltPrintAfterLineFeed ==
  [][LET screen == term.altscreen
         height == screen.size.height
         buf    == screen.grid.buf
         buf2   == term'.altscreen.grid.buf
     IN (/\ last'.op = "process" /\ last'.arg.k = "print"
         /\ CharWidth(last'.arg.c) = 1
         /\ term.screen_mode = "Alt"
         /\ height >= 1
         /\ screen.cursor.col < screen.size.width
         /\ screen.cursor.row = height)
        => /\ term'.status = "ok"
           /\ Len(buf2) = height
           /\ \A i \in 1..(height - 1) : buf2[i] = buf[i + 1]
           /\ Len(buf2[height].cells) > screen.cursor.col
           /\ buf2[height].cells[screen.cursor.col + 1].gc = last'.arg.c]_vars

WrappedCount(buf) == Cardinality({i \in 1..Len(buf) : buf[i].is_wrapped})

\* C18: while input is processed on the scrollback screen, a line's
\* is_wrapped flag is set only by a print made with the cursor column at or
\* beyond the width, or by a wide cell that would straddle the right edge.
\* A print of the rightmost cell leaves the flag of its line as it was and
\* the cursor at column width; a carriage return and a line feed after it
\* change no line and leave the cursor at column 0 of the next row.
C18_WrapOnlyAtNextPrint ==
  [][LET screen  == term.scrollback
         screen2 == term'.scrollback
         cell    == Cell_new(last'.arg.c, term.cursor_attrs)
         idx     == Scrollback_get_line_idx(screen2.grid, screen.size,
                                            screen.cursor.row)
         idx0    == Scrollback_get_line_idx(screen.grid, screen.size,
                                            screen.cursor.row)
     IN (last'.op = "process" /\ term.screen_mode = "Scrollback"
         /\ term'.status = "ok")
        => /\ WrappedCount(screen2.grid.buf) > WrappedCount(screen.grid.buf)
                => /\ last'.arg.k = "print"
                   /\ screen.cursor.col + cell.width >= screen.size.width + 1
           /\ (/\ last'.arg.k = "print" /\ cell.width = 1
               /\ screen.cursor.col = screen.size.width - 1
               /\ idx # 0)
                => /\ screen2.cursor = Pos(screen.cursor.row, screen.size.width)
                   /\ Len(screen2.grid.buf[idx].cells) = screen.size.width
                   /\ screen2.grid.buf[idx].is_wrapped =
                        (idx0 # 0 /\ Len(screen.grid.buf) = Len(screen2.grid.buf)
                         /\ screen.grid.buf[idx0].is_wrapped)
           /\ (last'.arg.k = "execute" /\ last'.arg.c = "CR")
                => /\ screen2.grid = screen.grid
                   /\ screen2.cursor = Pos(screen.cursor.row, 0)
           /\ (last'.arg.k = "execute" /\ last'.arg.c = "LF")
                => /\ screen2.grid = screen.grid
                   /\ screen2.cursor =
                        Pos(screen.cursor.row + 1, screen.cursor.col)]_vars

\* the rightmost cell of a row was written, then a carriage return and a line
\* feed: the line is full and not wrapped, the cursor at column 0 below it
C18_Witness ==
  LET screen == term.scrollback
      idx    == Scrollback_get_line_idx(screen.grid, screen.size,
                                        screen.cursor.row - 1)
  IN /\ last.op = "process" /\ last.arg.k = "execute" /\ last.arg.c = "LF"
     /\ term.status = "ok" /\ term.screen_mode = "Scrollback"
     /\ screen.size.width >= 2
     /\ screen.cursor.col = 0 /\ screen.cursor.row >= 1
     /\ idx # 0
     /\ Len(screen.grid.buf[idx].cells) = screen.size.width
     /\ ~screen.grid.buf[idx].cells[screen.size.width].empty
     /\ ~screen.grid.buf[idx].is_wrapped

\* C19: on the scrollback screen, a width-2 character printed with the cursor
\* at column width - 1 marks the current line wrapped and is placed at column
\* 0 of the next row; after any width-2 print the cell right of the glyph is
\* a wide_padding cell and the cursor has advanced two columns.
C19_WidePrint ==
  [][LET screen  == term.scrollback
         screen2 == term'.scrollback
         width   == screen.size.width
         buf2    == screen2.grid.buf
         idx0    == Scrollback_get_line_idx(screen.grid, screen.size,
                                            screen.cursor.row)
         idx2    == Scrollback_get_line_idx(screen2.grid, screen.size,
                                            screen2.cursor.row)
     IN (/\ last'.op = "process" /\ last'.arg.k = "print"
         /\ CharWidth(last'.arg.c) = 2
         /\ term.screen_mode = "Scrollback"
         /\ width >= 1
         /\ screen.cursor.row < screen.size.height
         /\ screen.cursor.col < width)
        => /\ term'.status = "ok"
           /\ idx2 # 0
           /\ screen2.cursor.col >= 2
           /\ Len(buf2[idx2].cells) >= screen2.cursor.col
           /\ buf2[idx2].cells[screen2.cursor.col - 1].gc = last'.arg.c
           /\ buf2[idx2].cells[screen2.cursor.col].wide_padding
           /\ screen.cursor.col + 2 <= width
                => screen2.cursor = Pos(screen.cursor.row, screen.cursor.col + 2)
           /\ screen.cursor.col = width - 1
                => /\ screen2.cursor.col = 2
                   /\ idx2 + 1 <= Len(buf2)
                   /\ buf2[idx2 + 1].is_wrapped
                   /\ idx0 # 0 =>
                        buf2[idx2 + 1].cells = screen.grid.buf[idx0].cells]_vars

\* the lines of `buf` that hold a width-2 glyph in the last column
LastColumnWide(buf, width) ==
  {i \in 1..Len(buf) : /\ width >= 1 /\ Len(buf[i].cells) >= width
                       /\ buf[i].cells[width].width = 2}

\* C20: on the alt screen, a width-2 character is stored as the glyph cell
\* followed by a wide_padding cell in the next column, and a width-2 glyph is
\* never stored in the last column of a row.
C20_AltWidePrint ==
  [][LET screen == term.altscreen
         width  == screen.size.width
         row    == screen.cursor.row
         col    == screen.cursor.col
         buf    == screen.grid.buf
         buf2   == term'.altscreen.grid.buf
     IN (/\ last'.op = "process" /\ last'.arg.k = "print"
         /\ CharWidth(last'.arg.c) = 2
         /\ term.screen_mode = "Alt"
         /\ row < screen.size.height
         /\ col < width)
        => /\ term'.status = "ok"
           /\ Cardinality(LastColumnWide(buf2, width)) <=
                Cardinality(LastColumnWide(buf, width))
           /\ col + 2 < width
                => /\ Len(buf2[row + 1].cells) >= col + 2
                   /\ buf2[row + 1].cells[col + 1].gc = last'.arg.c
                   /\ buf2[row + 1].cells[col + 2].wide_padding]_vars

\* the index into buf of the line the cursor row of `screen` addresses, 0 for none
CursorLineIdx(screen) ==
  IF screen.grid.kind = "Scrollback"
    THEN Scrollback_get_line_idx(screen.grid, screen.size, screen.cursor.row)
  ELSE IF screen.cursor.row < Len(screen.grid.buf) THEN screen.cursor.row + 1
  ELSE 0

\* C21: printing a zero-width (combining) character adds it to the grapheme
\* cluster of the preceding cell; it creates no new cell and does not move
\* the cursor.
C21_ZeroWidthJoinsCluster ==
  [][LET screen  == ActiveScreen(term)
         screen2 == ActiveScreen(term')
         buf     == screen.grid.buf
         buf2    == screen2.grid.buf
         idx     == CursorLineIdx(screen)
         col     == screen.cursor.col
     IN (/\ last'.op = "process" /\ last'.arg.k = "print"
         /\ CharWidth(last'.arg.c) = 0)
        => /\ term'.status = "ok"
           /\ screen2.cursor = screen.cursor
           /\ Len(buf2) = Len(buf)
           /\ \A i \in 1..Len(buf) : Len(buf2[i].cells) = Len(buf[i].cells)
           /\ (/\ idx # 0 /\ col >= 1 /\ Len(buf[idx].cells) >= col
               /\ ~buf[idx].cells[col].empty)
                => buf2[idx].cells[col].gc =
                     buf[idx].cells[col].gc \o last'.arg.c]_vars

\* the lines of a scrollback buffer from the oldest to the newest
RECURSIVE OldestFirst(_)
OldestFirst(buf) ==
  IF buf = <<>> THEN <<>>
  ELSE Append(OldestFirst(Tail(buf)), Head(buf))

\* the logical lines of `lines` (oldest first): the cells of each run of
\* wrapped lines joined with the line that ends the run; `cells` is the run
\* read so far and `open` tells whether it holds a line
RECURSIVE LogicalLines(_, _, _)
LogicalLines(lines, cells, open) ==
  IF lines = <<>> THEN IF open THEN <<cells>> ELSE <<>>
  ELSE LET l == Head(lines)
       IN IF l.is_wrapped
            THEN LogicalLines(Tail(lines), cells \o l.cells, TRUE)
            ELSE <<cells \o l.cells>> \o LogicalLines(Tail(lines), <<>>, FALSE)

\* C22: after a reflow to width W every logical line is stored as chunks of
\* exactly W cells except possibly the last; the last chunk of a logical
\* line has is_wrapped = false and every earlier chunk has is_wrapped = true,
\* for every pair of old and new widths.
C22_ReflowChunks ==
  LET buf == term.scrollback.grid.buf
      old == last.arg.buf
      W   == term.scrollback.size.width
      unwrapped(b) == Cardinality({i \in 1..Len(b) : ~b[i].is_wrapped})
  IN last.op = "resize_away"
       => /\ \A i \in 1..Len(buf) :
               /\ Len(buf[i].cells) <= W
               /\ buf[i].is_wrapped => Len(buf[i].cells) = W
          /\ unwrapped(buf) = unwrapped(old)
          /\ (old # <<>> /\ ~old[1].is_wrapped)
               => (buf # <<>> /\ ~buf[1].is_wrapped)

\* C23: a reflow to any width >= 1 preserves the sequence of logical lines:
\* their number, blank ones included, is unchanged and the cells of each,
\* joined in order, are the same before and after.
C23_ReflowKeepsLogicalLines ==
  last.op = "resize_away"
    => LogicalLines(OldestFirst(term.scrollback.grid.buf), <<>>, FALSE)
         = LogicalLines(OldestFirst(last.arg.buf), <<>>, FALSE)

\* C24: a resize that changes only the height leaves the cells and the
\* is_wrapped flag of every scrollback line unchanged, lines wrapped early
\* before a wide character included.
C24_HeightOnlyResize ==
  last.op = "resize_height" => term.scrollback.grid.buf = last.arg.buf

(***************************************************************************)
(* SpecAlt: the input that enters, leaves and writes the alt screen, with  *)
(* CSI ? ... h sequences that carry 1049 next to other parameters.         *)
(***************************************************************************)
\* the parameter groups fused with 1049: 1049 again, DECOM (6) and a mode no
\* arm handles (25)
FusedModes == {1049, 6, 25}

ProcessDECSETFused ==
  \E n \in FusedModes :
    \/ Process(CSI(<< <<n>>, <<1049>> >>, "?", "h"))
    \/ Process(CSI(<< <<1049>>, <<n>> >>, "?", "h"))

NextAlt ==
  \/ ProcessPrint \/ ProcessExecute \/ ProcessCUP \/ ProcessDECSC
  \/ ProcessDECSET \/ ProcessDECRST \/ ProcessDECSETFused

SpecAlt == Init /\ [][NextAlt]_vars

\* C25: every CSI ? 1049 h, one received while the alt screen is active or
\* fused with other parameters in one sequence included, leaves the alt
\* screen with height empty lines, the cursor at (0, 0) and a default saved
\* cursor, and makes it the active screen.
C25_EnterAltClobbers ==
  [][(/\ last'.op = "process" /\ last'.arg.k = "csi"
      /\ last'.arg.c = "h" /\ last'.arg.interm = "?"
      /\ \E i \in 1..Len(last'.arg.params) : last'.arg.params[i] = <<1049>>)
       => /\ term'.status = "ok"
          /\ term'.screen_mode = "Alt"
          /\ term'.altscreen.size = term.altscreen.size
          /\ term'.altscreen.grid.buf =
               Repeat(Line_new, term.altscreen.size.height)
          /\ term'.altscreen.cursor = Pos(0, 0)
          /\ term'.altscreen.saved_cursor = SavedCursor_new(Pos(0, 0))]_vars

\* C26: on the alt screen, a print that fills the last column of the last
\* row removes the top line and appends an empty line at the bottom (the
\* rows below the top move up by one, nothing is retained) and leaves the
\* cursor at (height - 1, 0); a print that fills the last column of any
\* other row moves the cursor to column 0 of the next row and changes no
\* other row.
C26_AltPrintLastColumn ==
  [][LET screen == term.altscreen
         height == screen.size.height
         row    == screen.cursor.row
         col    == screen.cursor.col
         buf    == screen.grid.buf
         buf2   == term'.altscreen.grid.buf
         same(l2, l) ==
           /\ l2.is_wrapped = l.is_wrapped
           /\ Len(l2.cells) = Max(Len(l.cells), col + 1)
           /\ l2.cells[col + 1] = Cell_new(last'.arg.c, term.cursor_attrs)
           /\ \A j \in 1..Len(l.cells) : j # col + 1 => l2.cells[j] = l.cells[j]
     IN (/\ last'.op = "process" /\ last'.arg.k = "print"
         /\ CharWidth(last'.arg.c) >= 1
         /\ term.screen_mode = "Alt"
         /\ row < height
         /\ col + CharWidth(last'.arg.c) = screen.size.width)
        => /\ term'.status = "ok"
           /\ Len(buf2) = height
           /\ IF row = height - 1
                THEN /\ term'.altscreen.cursor = Pos(height - 1, 0)
                     /\ buf2[height] = Line_new
                     /\ \A i \in 1..(height - 2) : buf2[i] = buf[i + 1]
                     /\ height >= 2 => same(buf2[height - 1], buf[height])
                ELSE /\ term'.altscreen.cursor = Pos(row + 1, 0)
                     /\ \A i \in 1..height : i # row + 1 => buf2[i] = buf[i]
                     /\ same(buf2[row + 1], buf[row + 1])]_vars

\* a print filled the only row of an alt screen two or more columns wide:
\* the row scrolled away and the cursor is back at its start
C26_Witness ==
  /\ last.op = "process" /\ last.arg.k = "print"
  /\ term.status = "ok" /\ term.screen_mode = "Alt"
  /\ term.altscreen.size.height = 1 /\ term.altscreen.size.width >= 2
  /\ term.altscreen.grid.buf = <<Line_new>>
  /\ term.altscreen.cursor = Pos(0, 0)

\* C27: after every cursor-movement CSI (A to H) with any parameter, from
\* any reachable state (a cursor row at or beyond the height left by line
\* feeds included), the cursor is inside the clamp region: rows [0, height)
\* in origin mode Term, rows [top, bottom) in origin mode ScrollRegion with a
\* Window region, and columns [0, width).
C27_CursorInsideClampRegion ==
  LET screen == ActiveScreen(term)
      region == screen.grid.scroll_region
      inWindow == screen.grid.origin_mode = "ScrollRegion"
                    /\ region.kind = "Window"
  IN (/\ last.op = "process" /\ last.arg.k = "csi" /\ last.arg.interm = ""
      /\ last.arg.c \in {"A", "B", "C", "D", "E", "F", "G", "H"})
     => /\ term.status = "ok"
        /\ screen.cursor.col < screen.size.width
        /\ IF inWindow
             THEN region.top <= screen.cursor.row
                    /\ screen.cursor.row < region.bottom
             ELSE screen.cursor.row < screen.size.height

\* C28: in every reachable state a Window scroll region of either screen
\* satisfies 0 <= top < bottom <= height, after a DECSTBM with any
\* parameters (a bottom beyond the height, a top at or beyond the bottom)
\* and after a resize to a smaller height.
RegionValid(screen) ==
  screen.grid.scroll_region.kind = "Window"
    => /\ 0 <= screen.grid.scroll_region.top
       /\ screen.grid.scroll_region.top < screen.grid.scroll_region.bottom
       /\ screen.grid.scroll_region.bottom <= screen.size.height

RowLine(screen, r) ==
  IF screen.grid.kind = "Scrollback"
    THEN LET idx == Scrollback_get_line_idx(screen.grid, screen.size, r)
         IN IF idx = 0 THEN Line_new ELSE screen.grid.buf[idx]
    ELSE IF r < Len(screen.grid.buf) THEN screen.grid.buf[r + 1] ELSE Line_new

\* the rows [top, bottom) that IL and DL work in: the region, or the whole
\* window for TrackSize
ShiftTop(screen) ==
  IF screen.grid.scroll_region.kind = "Window"
    THEN screen.grid.scroll_region.top ELSE 0

ShiftBottom(screen) ==
  IF screen.grid.scroll_region.kind = "Window"
    THEN screen.grid.scroll_region.bottom ELSE screen.size.height

IsShift(code) ==
  code.k = "csi" /\ code.interm = "" /\ code.c \in {"L", "M"}

\* what IL (c = "L") and DL (c = "M") of n lines make of row `row`, given
\* the screen before the step
ShiftedRow(screen, c, n, row) ==
  LET r      == screen.cursor.row
      bottom == ShiftBottom(screen)
      k      == Min(n, bottom - r)
  IN IF row < r \/ row >= bottom THEN RowLine(screen, row)
     ELSE IF c = "L"
       THEN IF row < r + k THEN Line_new ELSE RowLine(screen, row - k)
       ELSE IF row < bottom - k THEN RowLine(screen, row + k) ELSE Line_new

\* the step from term to term' did to the active screen what the claim
\* says of IL and DL
ShiftStepAsClaimed ==
  LET before == ActiveScreen(term)
      after  == ActiveScreen(term')
      n      == p1_or(last'.arg.params, 1)
      inside == /\ ShiftTop(before) <= before.cursor.row
                /\ before.cursor.row < ShiftBottom(before)
  IN /\ term'.status = "ok"
     /\ after.cursor = before.cursor
     /\ Len(after.grid.buf) = Len(before.grid.buf)
     /\ IF inside
          THEN \A row \in 0..(before.size.height - 1) :
                 RowLine(after, row) = ShiftedRow(before, last'.arg.c, n, row)
          ELSE after.grid.buf = before.grid.buf

AltTwin(screen) ==
  [screen EXCEPT !.grid =
     [AltScreen_new(screen.size) EXCEPT
        !.buf = [i \in 1..screen.size.height |-> RowLine(screen, i - 1)],
        !.scroll_region = screen.grid.scroll_region,
        !.origin_mode = screen.grid.origin_mode]]

\* IL (c = "L") or DL (c = "M") of n lines on a screen: [status, screen]
ShiftOn(screen, c, n) ==
  IF c = "L" THEN Screen_insert_lines(screen, n)
  ELSE Screen_delete_lines(screen, n)

\* the lines of the scrollback above the visible window, oldest last
History(screen) ==
  SubSeq(screen.grid.buf, Min(Len(screen.grid.buf), screen.size.height) + 1,
         Len(screen.grid.buf))

\* the IL/DL step from term to term' on the scrollback screen showed what
\* the same IL/DL shows on the alt screen and kept the history
ShiftStepAsOnAlt ==
  LET before == term.scrollback
      after  == term'.scrollback
      onAlt  == ShiftOn(AltTwin(before), last'.arg.c,
                        p1_or(last'.arg.params, 1))
  IN /\ term'.status = "ok"
     /\ onAlt.status = "ok"
     /\ \A row \in 0..(before.size.height - 1) :
          RowLine(after, row) = RowLine(onAlt.screen, row)
     /\ History(after) = History(before)
     /\ Len(after.grid.buf) = Len(before.grid.buf)

CellAt(screen, r, col) ==
  IF col < Len(RowLine(screen, r).cells)
    THEN RowLine(screen, r).cells[col + 1] ELSE Cell_empty

\* the rows [EraseTop, EraseBottom) that an erase in display covers
EraseTop(screen) ==
  IF screen.grid.origin_mode = "ScrollRegion"
     /\ screen.grid.scroll_region.kind = "Window"
    THEN screen.grid.scroll_region.top ELSE 0

EraseBottom(screen) ==
  IF screen.grid.origin_mode = "ScrollRegion"
     /\ screen.grid.scroll_region.kind = "Window"
    THEN screen.grid.scroll_region.bottom ELSE screen.size.height

IsED(code, n) ==
  code.k = "csi" /\ code.interm = "" /\ code.c = "J"
    /\ code.params = << <<n>> >>

\* whether ED n, with the cursor where the screen has it, empties the cell
\* at (row, col)
EdCovers(screen, n, row, col) ==
  /\ EraseTop(screen) <= row /\ row < EraseBottom(screen)
  /\ CASE n = 0 -> \/ row > screen.cursor.row
                   \/ row = screen.cursor.row /\ col >= screen.cursor.col
       [] n = 1 -> \/ row < screen.cursor.row
                   \/ row = screen.cursor.row /\ col <= screen.cursor.col
       [] OTHER -> TRUE

\* the ED n step from term to term' emptied what the claim says and
\* nothing else
EdStepAsClaimed(n) ==
  LET before == ActiveScreen(term)
      after  == ActiveScreen(term')
  IN /\ term'.status = "ok"
     /\ after.cursor = before.cursor
     /\ \A row \in 0..(before.size.height - 1),
           col \in 0..(before.size.width - 1) :
          CellAt(after, row, col)
            = IF EdCovers(before, n, row, col) THEN Cell_empty
              ELSE CellAt(before, row, col)

\* C31: ED 0 empties the cursor cell and everything after it up to the end
\* of the affected row range, ED 1 empties everything from the start of the
\* range through the cursor cell, ED 2 empties the whole range; the range
\* is [top, bottom) when origin mode ScrollRegion and a Window region are
\* both in effect and [0, height) otherwise; rows outside the range and the
\* cursor position are unchanged.
C31_EraseInDisplay ==
  [][\A n \in 0..2 :
       (last'.op = "process" /\ IsED(last'.arg, n)) => EdStepAsClaimed(n)]_vars

\* the ED n step (n = 2 or 3) from term to term' on the scrollback screen
\* emptied the rows [lo, hi) of the window, left its other rows alone, did
\* to the lines above the window what n says and did not move the cursor
EdScrollbackStep(n, lo, hi) ==
  LET before == term.scrollback
      after  == term'.scrollback
  IN /\ term'.status = "ok"
     /\ after.cursor = before.cursor
     /\ \A row \in 0..(before.size.height - 1) :
          RowLine(after, row).cells
            = IF lo <= row /\ row < hi THEN <<>>
              ELSE RowLine(before, row).cells
     /\ History(after) = IF n = 3 THEN <<>> ELSE History(before)

IsEL(code, n) ==
  code.k = "csi" /\ code.interm = "" /\ code.c = "K"
    /\ code.params = << <<n>> >>

\* the lines of a screen other than the one that row r of the window shows
OtherLines(screen, r) ==
  LET idx == IF screen.grid.kind = "Scrollback"
               THEN Scrollback_get_line_idx(screen.grid, screen.size, r)
               ELSE r + 1
  IN [k \in (1..Len(screen.grid.buf)) \ {idx} |-> screen.grid.buf[k]]

\* the EL n step from term to term' did to the cursor line what the claim
\* says, changed no other line and did not move the cursor
ElStepAsClaimed(n) ==
  LET before == ActiveScreen(term)
      after  == ActiveScreen(term')
      r      == before.cursor.row
      old    == RowLine(before, r)
      new    == RowLine(after, r)
  IN /\ term'.status = "ok"
     /\ after.cursor = before.cursor
     /\ Len(after.grid.buf) = Len(before.grid.buf)
     /\ OtherLines(after, r) = OtherLines(before, r)
     /\ CASE n = 0 -> /\ new.cells = Take(old.cells, before.cursor.col)
                      /\ ~new.is_wrapped
          [] n = 1 -> /\ Len(new.cells) = Len(old.cells)
                      /\ \A i \in 1..Len(old.cells) :
                           new.cells[i] = IF i - 1 <= before.cursor.col
                                            THEN Cell_empty ELSE old.cells[i]
          [] OTHER -> new.cells = <<>> /\ ~new.is_wrapped

\* C33: EL 0 removes the cells at columns >= cursor.col of the cursor line
\* and clears its is_wrapped flag; EL 1 replaces the cells at columns
\* 0..=cursor.col with empty cells and keeps the cells to the right; EL 2
\* removes all cells of the line and clears is_wrapped; no other line
\* changes and the cursor does not move.
C33_EraseInLine ==
  [][\A n \in 0..2 :
       (last'.op = "process" /\ IsEL(last'.arg, n)) => ElStepAsClaimed(n)]_vars

(***************************************************************************)
(* SpecLine: Line::delete_character and Line::insert_character as          *)
(* functions of the line, the width, the column, the count and the attrs.  *)
(* The lines are those a terminal of the width can hold: up to width       *)
(* cells, every wide cell followed by its padding.                         *)
(***************************************************************************)
LineCells ==
  {Cell_new("a", AttrsDefault), Cell_new("W", AttrsDefault), Cell_empty,
   Cell_wide_pad}

WidePaired(cells) ==
  \A i \in 1..Len(cells) :
    /\ cells[i].width = 2 => (i < Len(cells) /\ cells[i + 1].wide_padding)
    /\ cells[i].wide_padding => (i > 1 /\ cells[i - 1].width = 2)

LineUniverse(width) ==
  {[cells |-> cells, is_wrapped |-> w] :
     cells \in {c \in UNION {[1..len -> LineCells] : len \in 0..width} :
                  WidePaired(c)},
     w \in BOOLEAN}

\* the attrs a DCH backfills with: the default ones and inverse video
BackfillAttrs == {AttrsDefault, [AttrsDefault EXCEPT !.inverse = TRUE]}

InitLine ==
  /\ term = Term_new(MaxLines, Size(1, 1))
  /\ \E width \in Widths : \E line \in LineUniverse(width) :
       last = [op |-> "line", width |-> width, line |-> line]
  /\ steps = 0

\* Line::delete_character(width, col, attrs, n) with col < width
LineDeleteCharacter ==
  /\ last.op = "line"
  /\ \E col \in 0..(last.width - 1), n \in Widths, attrs \in BackfillAttrs :
       last' = [op |-> "delete_character", width |-> last.width,
                line |-> last.line, col |-> col, n |-> n, attrs |-> attrs,
                status |-> IF Line_delete_character_panics(last.line,
                                last.width, col, n) THEN "panic" ELSE "ok",
                result |-> IF Line_delete_character_panics(last.line,
                                last.width, col, n) THEN last.line
                           ELSE Line_delete_character(last.line, last.width,
                                                      col, attrs, n)]
  /\ UNCHANGED <<term, steps>>

\* Line::insert_character(width, col, n) with col < width
LineInsertCharacter ==
  /\ last.op = "line"
  /\ \E col \in 0..(last.width - 1), n \in Widths :
       last' = [op |-> "insert_character", width |-> last.width,
                line |-> last.line, col |-> col, n |-> n,
                status |-> IF Line_insert_character_panics(last.line, col)
                             THEN "panic" ELSE "ok",
                result |-> IF Line_insert_character_panics(last.line, col)
                             THEN last.line
                           ELSE Line_insert_character(last.line, last.width,
                                                      col, n)]
  /\ UNCHANGED <<term, steps>>

NextLine == LineDeleteCharacter \/ LineInsertCharacter

SpecLine == InitLine /\ [][NextLine]_vars

\* the cell at column col of a line: an empty cell where none is stored
LineCellAt(line, col) ==
  IF col < Len(line.cells) THEN line.cells[col + 1] ELSE Cell_empty

\* C34: for every line (any number of stored cells), every col < width and
\* every n >= 1 with col + n <= width, after delete_character(width, col,
\* attrs, n) the line has exactly width cells, the cells left of col are
\* unchanged, the cells that were at columns >= col + n (stored or
\* implicitly empty) have moved left by n, and exactly the last n cells are
\* empty cells carrying attrs.
C34_DeleteCharacter ==
  (last.op = "delete_character" /\ last.col + last.n <= last.width)
  => /\ last.status = "ok"
     /\ Len(last.result.cells) = last.width
     /\ \A i \in 0..(last.width - 1) :
          last.result.cells[i + 1]
            = IF i < last.col THEN LineCellAt(last.line, i)
              ELSE IF i < last.width - last.n
                THEN LineCellAt(last.line, i + last.n)
              ELSE Cell_empty_with_attrs(last.attrs)

\* C35: for every line (any number of stored cells), every col < width and
\* every n >= 1, after insert_character(width, col, n) the cells left of
\* col are unchanged, columns [col, col + n) are empty, each old cell at
\* column i >= col is at column i + n if i + n < width and is dropped
\* otherwise, and the cursor does not move.
C35_InsertCharacter ==
  last.op = "insert_character"
  => /\ last.status = "ok"
     /\ Len(last.result.cells) <= last.width
     /\ \A i \in 0..(last.width - 1) :
          LineCellAt(last.result, i)
            = IF i < last.col THEN LineCellAt(last.line, i)
              ELSE IF i < last.col + last.n THEN Cell_empty
              ELSE LineCellAt(last.line, i - last.n)

\* the screen that is not the active one
InactiveScreen(t) ==
  IF t.screen_mode = "Alt" THEN t.scrollback ELSE t.altscreen

\* the save or restore step from term to term' did what the claim says of
\* the sequence: "7" and "8" are ESC 7 and ESC 8, "s" and "u" CSI s and
\* CSI u
SaveRestoreAsClaimed(seq) ==
  LET before == ActiveScreen(term)
      after  == ActiveScreen(term')
  IN /\ term'.status = "ok"
     /\ term'.screen_mode = term.screen_mode
     /\ InactiveScreen(term') = InactiveScreen(term)
     /\ after.grid = before.grid
     /\ CASE seq = "7" ->
               /\ after.saved_cursor
                    = [pos |-> before.cursor, attrs |-> term.cursor_attrs]
               /\ after.cursor = before.cursor
               /\ term'.cursor_attrs = term.cursor_attrs
          [] seq = "8" ->
               /\ after.cursor = before.saved_cursor.pos
               /\ term'.cursor_attrs = before.saved_cursor.attrs
               /\ after.saved_cursor = before.saved_cursor
          [] seq = "s" ->
               /\ after.saved_cursor.pos = before.cursor
               /\ after.saved_cursor.attrs = before.saved_cursor.attrs
               /\ after.cursor = before.cursor
               /\ term'.cursor_attrs = term.cursor_attrs
          [] OTHER ->
               /\ after.cursor = before.saved_cursor.pos
               /\ term'.cursor_attrs = term.cursor_attrs
               /\ after.saved_cursor = before.saved_cursor

\* C36: ESC 7 stores the cursor position and cursor_attrs in the active
\* screen's saved cursor and ESC 8 restores both; CSI s stores only the
\* position and CSI u restores only the position, leaving cursor_attrs
\* unchanged; the attrs saved by ESC 7 are not changed by a later CSI s.
C36_SaveRestoreCursor ==
  [][/\ \A b \in {"7", "8"} :
          (last'.op = "process" /\ last'.arg = ESC(b))
          => SaveRestoreAsClaimed(b)
     /\ \A c \in {"s", "u"} :
          (last'.op = "process" /\ last'.arg = CSI(<<>>, "", c))
          => SaveRestoreAsClaimed(c)]_vars

\* an ESC 8 brought back attrs other than the default ones, and a position
\* other than the origin
C36_Witness ==
  /\ last.op = "process" /\ last.arg = ESC("8")
  /\ term.status = "ok"
  /\ term.cursor_attrs # AttrsDefault
  /\ ActiveScreen(term).saved_cursor.attrs = term.cursor_attrs
  /\ ActiveScreen(term).cursor # Pos(0, 0)
  /\ ActiveScreen(term).cursor = ActiveScreen(term).saved_cursor.pos

\* a position inside a size
InsideSize(pos, size) == pos.row < size.height /\ pos.col < size.width

\* C37: after resize(new_size) with width >= 1 and height >= 1, the cursor
\* and the saved cursor position of both screens satisfy row < new height
\* and col < new width.
C37_ResizeClampsCursors ==
  last.op = "resize"
  => /\ term.status = "ok"
     /\ \A screen \in {term.scrollback, term.altscreen} :
          /\ screen.size = last.arg
          /\ InsideSize(screen.cursor, last.arg)
          /\ InsideSize(screen.saved_cursor.pos, last.arg)

\* a resize to a smaller size left the cursor and the saved cursor of the
\* scrollback screen in the last column of the new size
C37_Witness ==
  /\ last.op = "resize" /\ term.status = "ok"
  /\ last.arg.width < MaxWidth
  /\ term.scrollback.cursor.col = last.arg.width - 1
  /\ term.scrollback.cursor.col > 0
  /\ term.scrollback.saved_cursor.pos = term.scrollback.cursor

IsCursorMove(code) ==
  code.k = "csi" /\ code.interm = ""
    /\ code.c \in {"A", "B", "C", "D", "E", "F", "G", "H"}

\* the step from term to term' did to the scroll offset of the scrollback
\* what the claim says of the sequence processed
ScrollOffsetStep ==
  LET before == term.scrollback.grid
      after  == term'.scrollback.grid
      code   == last'.arg
      n      == p1_or(code.params, 1)
  IN /\ (code.k = "csi" /\ code.interm = "" /\ code.c = "S"
         /\ term.screen_mode = "Scrollback")
        => after.scroll_offset = Min(before.scroll_offset + n, before.lines)
     /\ (code.k = "csi" /\ code.interm = "" /\ code.c = "T"
         /\ term.screen_mode = "Scrollback")
        => after.scroll_offset = Max(before.scroll_offset - n, 0)
     /\ (code.k = "print" /\ term.screen_mode = "Scrollback")
        => after.scroll_offset = 0
     /\ IsCursorMove(code) => after.scroll_offset = before.scroll_offset

PushedLines(screen, cell) ==
  LET len   == Len(screen.grid.buf)
      fill  == SatSub(screen.cursor.row + 1, len)
      wraps == Scrollback_wraps(screen.size, screen.cursor, cell)
      added == wraps /\ screen.cursor.row < screen.size.height
                     /\ len + fill < screen.cursor.row + 2
  IN fill + (IF added THEN 1 ELSE 0)

\* the step from term to term' was a print on the scrollback that returned
\* and pushed more lines than the capacity had room for
PrintDropsLines ==
  /\ last'.op = "process" /\ last'.arg.k = "print"
  /\ term.screen_mode = "Scrollback" /\ term'.status = "ok"
  /\ LET j == PushedLines(term.scrollback,
                          Cell_new(last'.arg.c, term.cursor_attrs))
     IN j >= 1 /\ Len(term.scrollback.grid.buf) + j > term.scrollback.grid.lines

\* after such a print buf is full, and under the pushed lines the newest
\* lines of before follow in their order with their cells
PrintKeepsNewest ==
  LET before == term.scrollback.grid
      after  == term'.scrollback.grid
      j      == PushedLines(term.scrollback,
                            Cell_new(last'.arg.c, term.cursor_attrs))
  IN /\ Len(after.buf) = after.lines
     /\ \A i \in (j + 1)..Len(after.buf) :
          after.buf[i].cells = before.buf[i - j].cells

\* set_scrollback_lines keeps the newest lines of before, in their order
\* and unchanged, as many as the new capacity holds
ShrinkKeepsNewest ==
  LET before == term.scrollback.grid
      after  == term'.scrollback.grid
  IN /\ Len(after.buf) = Min(Len(before.buf), last'.arg)
     /\ \A i \in 1..Len(after.buf) : after.buf[i] = before.buf[i]

\* C39: whenever the scrollback drops lines for capacity (a print that would
\* exceed max_lines, or set_scrollback_lines with a smaller value), the
\* dropped lines are the oldest ones and the kept lines keep their order and
\* content.
C39_DropsOldest ==
  [][/\ PrintDropsLines => PrintKeepsNewest
     /\ last'.op = "set_scrollback_lines" => ShrinkKeepsNewest]_vars

\* a print wrapped off the last line the capacity allows: the line it pushed
\* is in front, the line it wrapped from is kept behind it with its cells
C39_Witness ==
  /\ last.op = "process" /\ last.arg.k = "print"
  /\ term.status = "ok" /\ term.screen_mode = "Scrollback"
  /\ term.scrollback.grid.lines >= 2
  /\ Len(term.scrollback.grid.buf) = term.scrollback.grid.lines
  /\ term.scrollback.cursor.row = term.scrollback.grid.lines
  /\ term.scrollback.grid.buf[2].is_wrapped
  /\ term.scrollback.grid.buf[2].cells # <<>>
  /\ term.scrollback.grid.buf[2].cells # term.scrollback.grid.buf[1].cells

(***************************************************************************)
(* Wide glyphs and their padding cells                                     *)
(***************************************************************************)
\* every line of the screen's grid pairs its width-2 cells with padding
ScreenWidePaired(screen) ==
  \A i \in 1..Len(screen.grid.buf) : WidePaired(screen.grid.buf[i].cells)

\* C40: in every reachable state, on both screens, every width-2 cell is
\* immediately followed on the same line by a wide_padding cell and every
\* wide_padding cell is immediately preceded by a width-2 cell.
C40_WidePairing ==
  ScreenWidePaired(term.scrollback) /\ ScreenWidePaired(term.altscreen)

====
